---- MODULE Spec2Model ----
(***************************************************************************)
(* Model of spotify-report: the token lifecycle held in the signed         *)
(* session (app/utils.py: refresh_access_token, get_auth; app/app.py:      *)
(* /authorize, /callback) and the /sync workflow over the relational       *)
(* store (app/app.py: sync; app/utils.py: add_or_get_user, clean_tables,   *)
(* sync_playlists, sync_tracks).                                           *)
(*                                                                         *)
(* Python values:                                                          *)
(*   - a str that is only compared is a TLA+ string; a missing dict key    *)
(*     or None is the value None;                                          *)
(*   - a str that is parsed (the OAuth state) is a sequence of one-        *)
(*     character strings; None is NoneS;                                   *)
(*   - expiration_time is a number; a missing key is NoTime (0), which     *)
(*     Python's truth test treats like None.                               *)
(***************************************************************************)
EXTENDS Integers, Sequences, FiniteSets, Bags, TLC

\* ------------------------------------------------------------------ bounds
StartTime == 1000          \* time.time() at the first request
MaxTime == 1060            \* the clock is not advanced past this
TickStep == 30             \* granularity of the modelled clock
MaxListing == 2            \* playlists in one user's remote listing
PageSize == 1              \* items the remote API puts on one page

None == "None"
NoneS == <<"None">>
NoTime == 0

\* the "30 second buffer" of utils.refresh_access_token
EXPIRY_BUFFER == 30

\* ------------------------------------------------------------ input domains
AccessTokens == {"a1", "a2"}
RefreshTokens == {"r1", "r2"}
ExpiresIns == {30, 60}
Codes == {"c1"}
Errors == {"access_denied"}

\* secrets.token_urlsafe(16): url-safe base64 text, never contains ":"
UrlSafeTokens == {<<"k">>, <<"m">>}
\* next_url values: omitted or empty, a path holding ":" and a path holding
\* the query separator "&"
NextUrls == {<<>>, <<"/", ":", "s">>, <<"/", "&", "s">>}

\* JSON body of the token endpoint: a success carries access_token and
\* expires_in and optionally refresh_token; a failure carries none of them.
FailedResponse == [access_token |-> None, refresh_token |-> None, expires_in |-> 0]
TokenResponses ==
    {FailedResponse} \cup
    [access_token : AccessTokens, refresh_token : {None, "r2"}, expires_in : ExpiresIns]

\* ------------------------------------------------------------------- state
VARIABLES
    session,    \* request.session: the signed cookie session of the browser
    now,        \* time.time()
    pre,        \* request.session as it was when the last operation started
    last,       \* the last operation: its inputs, its outcome, the requests it sent
    db,         \* the committed rows of the five tables
    tx,         \* the rows as the Session of the request in progress sees them
    req,        \* the /sync request in progress: arguments, position, locals
    result      \* how the last /sync request ended

authVars == <<session, now, pre, last>>
syncVars == <<db, tx, req, result>>
vars == <<session, now, pre, last, db, tx, req, result>>

\* Python truth value of an optional str
Truthy(x) == x # None /\ x # ""

\* str concatenation of the two parts of the OAuth state
MakeState(token, next_url) == token \o <<":">> \o next_url

AuthorizeStates == {MakeState(t, u) : t \in UrlSafeTokens, u \in NextUrls}

\* outcome of one call: the session it leaves, how it ended, the requests
\* it sent to https://accounts.spotify.com/api/token
Outcome(s, kind, value, posts) ==
    [session |-> s, kind |-> kind, value |-> value, posts |-> posts]

RefreshPost(refresh_token) == [grant_type |-> "refresh_token", token |-> refresh_token]
CodePost(code) == [grant_type |-> "authorization_code", token |-> code]

\* refresh_access_token without the 30 second buffer
refresh_access_token_no_buffer(s, t, refresh_token, res) ==
    IF ~Truthy(refresh_token) /\ ~Truthy(s.refresh_token)
    THEN Outcome(s, "raise", "ValueError: Missing refresh token", <<>>)
    ELSE
      LET used == IF Truthy(refresh_token) THEN refresh_token ELSE s.refresh_token
          s1 == IF Truthy(res.refresh_token)
                THEN [s EXCEPT !.refresh_token = res.refresh_token]
                ELSE s
          s2 == [s1 EXCEPT !.expiration_time = res.expires_in + t]
          s3 == [s2 EXCEPT !.access_token = res.access_token]
      IN IF Truthy(res.access_token)
         THEN Outcome(s3, "return", res.access_token, <<RefreshPost(used)>>)
         ELSE Outcome(s, "return", None, <<RefreshPost(used)>>)

\* refresh_access_token storing the response's refresh_token even when absent
refresh_access_token_always_rotate(s, t, refresh_token, res) ==
    IF ~Truthy(refresh_token) /\ ~Truthy(s.refresh_token)
    THEN Outcome(s, "raise", "ValueError: Missing refresh token", <<>>)
    ELSE
      LET used == IF Truthy(refresh_token) THEN refresh_token ELSE s.refresh_token
          s1 == [s EXCEPT !.refresh_token = res.refresh_token]
          s2 == [s1 EXCEPT !.expiration_time = res.expires_in + t - EXPIRY_BUFFER]
          s3 == [s2 EXCEPT !.access_token = res.access_token]
      IN IF Truthy(res.access_token)
         THEN Outcome(s3, "return", res.access_token, <<RefreshPost(used)>>)
         ELSE Outcome(s, "return", None, <<RefreshPost(used)>>)

\* refresh_access_token writing expiration_time before it looks at access_token
refresh_access_token_early_write(s, t, refresh_token, res) ==
    IF ~Truthy(refresh_token) /\ ~Truthy(s.refresh_token)
    THEN Outcome(s, "raise", "ValueError: Missing refresh token", <<>>)
    ELSE
      LET used == IF Truthy(refresh_token) THEN refresh_token ELSE s.refresh_token
          s0 == [s EXCEPT !.expiration_time = res.expires_in + t - EXPIRY_BUFFER]
          s1 == IF Truthy(res.refresh_token)
                THEN [s0 EXCEPT !.refresh_token = res.refresh_token]
                ELSE s0
          s3 == [s1 EXCEPT !.access_token = res.access_token]
      IN IF Truthy(res.access_token)
         THEN Outcome(s3, "return", res.access_token, <<RefreshPost(used)>>)
         ELSE Outcome(s0, "return", None, <<RefreshPost(used)>>)

\* refresh_access_token raising when the session HAS a token and posting
\* without one otherwise (the guard with its second "not" dropped)
refresh_access_token_inverted_guard(s, t, refresh_token, res) ==
    IF ~Truthy(refresh_token) /\ Truthy(s.refresh_token)
    THEN Outcome(s, "raise", "ValueError: Missing refresh token", <<>>)
    ELSE
      LET used == IF Truthy(refresh_token) THEN refresh_token ELSE s.refresh_token
          s1 == IF Truthy(res.refresh_token)
                THEN [s EXCEPT !.refresh_token = res.refresh_token]
                ELSE s
          s2 == [s1 EXCEPT !.expiration_time = res.expires_in + t - EXPIRY_BUFFER]
          s3 == [s2 EXCEPT !.access_token = res.access_token]
      IN IF Truthy(res.access_token)
         THEN Outcome(s3, "return", res.access_token, <<RefreshPost(used)>>)
         ELSE Outcome(s, "return", None, <<RefreshPost(used)>>)

\* utils.refresh_access_token(request, refresh_token) answered by res at time t
refresh_access_token(s, t, refresh_token, res) ==
    IF ~Truthy(refresh_token) /\ ~Truthy(s.refresh_token)
    THEN Outcome(s, "raise", "ValueError: Missing refresh token", <<>>)
    ELSE
      LET used == IF Truthy(refresh_token) THEN refresh_token ELSE s.refresh_token
          s1 == IF Truthy(res.refresh_token)
                THEN [s EXCEPT !.refresh_token = res.refresh_token]
                ELSE s
          s2 == [s1 EXCEPT !.expiration_time = res.expires_in + t - EXPIRY_BUFFER]
          s3 == [s2 EXCEPT !.access_token = res.access_token]
      IN IF Truthy(res.access_token)
         THEN Outcome(s3, "return", res.access_token, <<RefreshPost(used)>>)
         ELSE Outcome(s, "return", None, <<RefreshPost(used)>>)

\* get_auth trying the refresh token before the cached access token
get_auth_refresh_first(s, t, res) ==
    LET r == IF Truthy(s.refresh_token)
             THEN refresh_access_token(s, t, s.refresh_token, res)
             ELSE Outcome(s, "return", None, <<>>)
    IN IF r.kind = "return" /\ Truthy(r.value)
       THEN r
       ELSE IF s.expiration_time # NoTime /\ s.expiration_time > t
               /\ Truthy(s.access_token)
       THEN Outcome(r.session, "return", s.access_token, r.posts)
       ELSE Outcome(r.session, "raise",
                    "ValueError: Please call /authorize to generate new tokens",
                    r.posts)

\* get_auth accepting the cached token at the instant it expires (>= for >)
get_auth_inclusive_expiry(s, t, res) ==
    IF s.expiration_time # NoTime /\ s.expiration_time >= t /\ Truthy(s.access_token)
    THEN Outcome(s, "return", s.access_token, <<>>)
    ELSE
      LET r == IF Truthy(s.refresh_token)
               THEN refresh_access_token(s, t, s.refresh_token, res)
               ELSE Outcome(s, "return", None, <<>>)
      IN IF r.kind = "return" /\ Truthy(r.value)
         THEN r
         ELSE IF r.kind = "raise"
         THEN r
         ELSE Outcome(r.session, "raise",
                      "ValueError: Please call /authorize to generate new tokens",
                      r.posts)

\* get_auth falling back to the session's access_token instead of raising
get_auth_fallback(s, t, res) ==
    IF s.expiration_time # NoTime /\ s.expiration_time > t /\ Truthy(s.access_token)
    THEN Outcome(s, "return", s.access_token, <<>>)
    ELSE
      LET r == IF Truthy(s.refresh_token)
               THEN refresh_access_token(s, t, s.refresh_token, res)
               ELSE Outcome(s, "return", None, <<>>)
      IN IF r.kind = "return" /\ Truthy(r.value)
         THEN r
         ELSE IF r.kind = "raise"
         THEN r
         ELSE Outcome(r.session, "return", r.session.access_token, r.posts)

\* utils.get_auth(request) at time t; res answers the refresh it may send
get_auth(s, t, res) ==
    IF s.expiration_time # NoTime /\ s.expiration_time > t /\ Truthy(s.access_token)
    THEN Outcome(s, "return", s.access_token, <<>>)
    ELSE
      LET r == IF Truthy(s.refresh_token)
               THEN refresh_access_token(s, t, s.refresh_token, res)
               ELSE Outcome(s, "return", None, <<>>)
      IN IF r.kind = "return" /\ Truthy(r.value)
         THEN r
         ELSE IF r.kind = "raise"
         THEN r
         ELSE Outcome(r.session, "raise",
                      "ValueError: Please call /authorize to generate new tokens",
                      r.posts)

\* position of the first ":" in a str, 0 when there is none (str.index raises)
RECURSIVE IndexFrom(_, _, _)
IndexFrom(str, ch, i) ==
    IF i > Len(str) THEN 0
    ELSE IF str[i] = ch THEN i
    ELSE IndexFrom(str, ch, i + 1)

Index(str, ch) == IndexFrom(str, ch, 1)

DOCS_URL == <<"/", "d", "o", "c", "s">>

HTMLResponse(body) ==
    [status |-> 200, media |-> "text/html", body |-> body, location |-> <<>>]
RedirectResponse(url) ==
    [status |-> 307, media |-> "", body |-> <<>>, location |-> url]

\* the authorization URL up to its last parameter; the state is appended
\* as written, without percent-encoding, and RedirectResponse leaves
\* ":", "/" and "&" as they are
AUTHORIZE_URL ==
    <<"https://accounts.spotify.com/authorize?response_type=code&client_id=..",
      "&redirect_uri=..", "&scope=..">>
AuthUrl(state) == AUTHORIZE_URL \o <<"&state=">> \o state

\* the text of a query up to the next parameter or the fragment
RECURSIVE UpToDelimiter(_)
UpToDelimiter(str) ==
    IF str = <<>> \/ Head(str) \in {"&", "#"} THEN <<>>
    ELSE <<Head(str)>> \o UpToDelimiter(Tail(str))

\* the state parameter as the provider reads it from the authorization URL,
\* which is the state it hands back to /callback
ProviderState(url) ==
    UpToDelimiter(SubSeq(url, Index(url, "&state=") + 1, Len(url)))

\* app.get_user_auth, GET /authorize?next_url=..., with the random token drawn
get_user_auth(s, next_url, token) ==
    LET url == IF next_url = NoneS \/ next_url = <<>> THEN <<>> ELSE next_url
        state == MakeState(token, url)
    IN Outcome([s EXCEPT !.state = state], "return",
               RedirectResponse(AuthUrl(state)), <<>>)

\* callback exchanging the code without comparing the state
callback_no_state_check(s, t, code, state, error, res) ==
    LET stored_state == s.state IN
    IF Truthy(error)
    THEN Outcome(s, "return", HTMLResponse(<<"Failed due to ", error>>), <<>>)
    ELSE IF Truthy(code)
    THEN
      IF state = NoneS
      THEN Outcome(s, "raise", "AttributeError", <<>>)
      ELSE IF Index(state, ":") = 0
      THEN Outcome(s, "raise", "ValueError: substring not found", <<>>)
      ELSE
        LET tail == SubSeq(state, Index(state, ":") + 1, Len(state))
            next_url == IF tail # <<>> THEN tail ELSE DOCS_URL
            s1 == [s EXCEPT !.access_token = res.access_token]
            s2 == [s1 EXCEPT !.expiration_time = res.expires_in + t]
            s3 == IF Truthy(res.refresh_token)
                  THEN [s2 EXCEPT !.refresh_token = res.refresh_token]
                  ELSE s2
        IN IF res.access_token = None
           THEN Outcome(s, "raise", "KeyError: access_token", <<CodePost(code)>>)
           ELSE Outcome(s3, "return", RedirectResponse(next_url), <<CodePost(code)>>)
    ELSE Outcome(s, "return",
                 HTMLResponse(<<"State mismatch! expected ", stored_state,
                                " but got ", state>>),
                 <<>>)

\* app.callback, GET /callback?code=..&state=..&error=.., at time t; res is
\* the JSON that get_access_token brings back from the token endpoint
callback(s, t, code, state, error, res) ==
    LET stored_state == s.state IN
    IF Truthy(error)
    THEN Outcome(s, "return", HTMLResponse(<<"Failed due to ", error>>), <<>>)
    ELSE IF Truthy(code) /\ state = stored_state
    THEN
      IF state = NoneS
      THEN Outcome(s, "raise", "AttributeError", <<>>)
      ELSE IF Index(state, ":") = 0
      THEN Outcome(s, "raise", "ValueError: substring not found", <<>>)
      ELSE
        LET tail == SubSeq(state, Index(state, ":") + 1, Len(state))
            next_url == IF tail # <<>> THEN tail ELSE DOCS_URL
            s1 == [s EXCEPT !.access_token = res.access_token]
            s2 == [s1 EXCEPT !.expiration_time = res.expires_in + t]
            s3 == IF Truthy(res.refresh_token)
                  THEN [s2 EXCEPT !.refresh_token = res.refresh_token]
                  ELSE s2
        IN IF res.access_token = None
           THEN Outcome(s, "raise", "KeyError: access_token", <<CodePost(code)>>)
           ELSE Outcome(s3, "return", RedirectResponse(next_url), <<CodePost(code)>>)
    ELSE Outcome(s, "return",
                 HTMLResponse(<<"State mismatch! expected ", stored_state,
                                " but got ", state>>),
                 <<>>)

\* ------------------------------------------------- remote catalogue and store
Users == {"u1", "u2"}
PlaylistIds == {"p1", "p2"}

\* a JSON null among the items of a page
NullItem == [null |-> TRUE]

\* a playlist object of GET /users/{user}/playlists
PlaylistItems == {[id |-> i, name |-> <<"name of", i>>, owner |-> [id |-> o]] :
                    i \in PlaylistIds, o \in Users}

RemoteTrack(id, artist, album) ==
    [id |-> id, name |-> <<"name of", id>>,
     artists |-> <<[id |-> artist, name |-> <<"name of", artist>>]>>,
     album |-> [id |-> album, name |-> <<"name of", album>>]]

\* playlist entries of GET /playlists/{id}/tracks: two catalogue tracks that
\* share an album but not the first artist, the second with two artists, a
\* local file, and an entry whose is_local is missing (.get gives None)
Entry1 == [is_local |-> "False", track |-> RemoteTrack("t1", "ar1", "al1")]
Entry2 == [is_local |-> "False",
           track |-> [RemoteTrack("t2", "ar2", "al1") EXCEPT
                        !.artists = @ \o <<[id |-> "ar3", name |-> <<"name of", "ar3">>]>>]]
LocalEntry == [is_local |-> "True", track |-> RemoteTrack("t3", "ar1", "al2")]
AbsentEntry == [is_local |-> None, track |-> RemoteTrack("t4", "ar4", "al1")]

SeqsUpTo(S, n) == UNION {[1..k -> S] : k \in 0..n}

\* what the remote holds when it is asked: a user's listing, a playlist's entries
RemoteListings == SeqsUpTo(PlaylistItems \cup {NullItem}, MaxListing)
\* a playlist is empty, holds one track twice, or holds a local file, a
\* null, an entry without is_local and two tracks
RemoteEntries ==
    {<<>>, <<Entry1, Entry1>>, <<LocalEntry, NullItem, AbsentEntry, Entry2, Entry1>>}

\* the remote serves a collection in pages of PageSize items; an empty
\* collection is one page without items
RECURSIVE Pages(_)
Pages(items) ==
    IF Len(items) <= PageSize
    THEN <<items>>
    ELSE <<SubSeq(items, 1, PageSize)>> \o Pages(SubSeq(items, PageSize + 1, Len(items)))

\* an if in place of the while: at most one "next" link is followed
FollowNext_once(pages, i, acc) ==
    IF i < Len(pages)
    THEN [items |-> acc.items \o pages[i + 1], gets |-> acc.gets + 1]
    ELSE acc

\* the while loop of the two wrappers: page i has been read into acc and
\* carries a "next" link exactly when a further page exists
RECURSIVE FollowNext(_, _, _)
FollowNext(pages, i, acc) ==
    IF i < Len(pages)
    THEN FollowNext(pages, i + 1, [items |-> acc.items \o pages[i + 1],
                                   gets |-> acc.gets + 1])
    ELSE acc

NotNull(item) == item # NullItem

\* utils.get_playlists_wrapper: the items returned and the GET requests sent
get_playlists_wrapper(pages) ==
    LET first == [items |-> pages[1], gets |-> 1]
        all == IF first.items # <<>> THEN FollowNext(pages, 1, first) ELSE first
    IN [items |-> SelectSeq(all.items, NotNull), gets |-> all.gets]

\* utils.get_tracks_wrapper: the items returned and the GET requests sent
get_tracks_wrapper(pages) ==
    LET first == [items |-> pages[1], gets |-> 1]
        all == IF first.items # <<>> THEN FollowNext(pages, 1, first) ELSE first
    IN [items |-> SelectSeq(all.items, NotNull), gets |-> all.gets]

\* the tables user_id, playlist, track, artist, album; track has a generated
\* key, so equal rows may repeat and the table is a bag
EmptyDB == [user_id |-> {}, playlist |-> {}, track |-> EmptyBag,
            artist |-> {}, album |-> {}]

Range(seq) == {seq[i] : i \in 1..Len(seq)}
Keys(rows) == {r.spotify_id : r \in rows}

RECURSIVE SeqToBag(_)
SeqToBag(seq) ==
    IF seq = <<>> THEN EmptyBag ELSE SetToBag({Head(seq)}) (+) SeqToBag(Tail(seq))

\* the outcome of a step on the store: the rows it leaves, or the exception
Done(t) == [ok |-> TRUE, db |-> t, error |-> None]
Raised(t, error) == [ok |-> FALSE, db |-> t, error |-> error]

\* the query without filter_by(user_id=user)
PlaylistsOf_every_user(t, user) == t.playlist

PlaylistsOf(t, user) == {p \in t.playlist : p.user_id = user}

\* clean_tables without the filter on user_id
clean_tables_every_user(t, user) ==
    Done([t EXCEPT !.playlist = {}, !.track = EmptyBag])

\* clean_tables on a schema whose track.playlist_id does not cascade
clean_tables_no_cascade(t, user) ==
    Done([t EXCEPT !.playlist = {p \in @ : p.user_id # user}])

\* utils.clean_tables: DELETE FROM playlist WHERE user_id = :user, with the
\* ON DELETE CASCADE of track.playlist_id
clean_tables(t, user) ==
    LET gone == Keys(PlaylistsOf(t, user))
        kept == {r \in DOMAIN t.track : r.playlist_id \notin gone}
    IN Done([t EXCEPT !.playlist = {p \in @ : p.user_id # user},
                      !.track = [r \in kept |-> t.track[r]]])

\* INSERT of new Playlist objects at flush: primary key and foreign key checked
InsertPlaylists(t, rows) ==
    IF \/ \E i, j \in 1..Len(rows) : i # j /\ rows[i].spotify_id = rows[j].spotify_id
       \/ Keys(Range(rows)) \cap Keys(t.playlist) # {}
       \/ \E i \in 1..Len(rows) : rows[i].user_id \notin t.user_id
    THEN Raised(t, "IntegrityError")
    ELSE Done([t EXCEPT !.playlist = @ \cup Range(rows)])

PlaylistRow(playlist) ==
    [spotify_id |-> playlist.id, name |-> playlist.name, user_id |-> playlist.owner.id]

\* sync_playlists storing every listed playlist, whoever owns it
sync_playlists_any_owner(t, user, raw_playlists) ==
    IF raw_playlists = <<>>
    THEN Done(t)
    ELSE InsertPlaylists(t, [i \in 1..Len(raw_playlists) |-> PlaylistRow(raw_playlists[i])])

\* utils.sync_playlists once get_playlists_wrapper has returned raw_playlists
sync_playlists(t, user, raw_playlists) ==
    LET owned == SelectSeq(raw_playlists, LAMBDA playlist : playlist.owner.id = user)
    IN IF raw_playlists = <<>>
       THEN Done(t)
       ELSE InsertPlaylists(t, [i \in 1..Len(owned) |-> PlaylistRow(owned[i])])

\* the loop without seen.add: every item is taken
RECURSIVE Dedup_never_seen(_, _)
Dedup_never_seen(items, seen) ==
    IF items = <<>> THEN <<>>
    ELSE IF Head(items).id \in seen THEN Dedup_never_seen(Tail(items), seen)
    ELSE <<Head(items)>> \o Dedup_never_seen(Tail(items), seen)

\* the seen-set loop of sync_artists and sync_albums: first occurrence per id
RECURSIVE Dedup(_, _)
Dedup(items, seen) ==
    IF items = <<>> THEN <<>>
    ELSE IF Head(items).id \in seen THEN Dedup(Tail(items), seen)
    ELSE <<Head(items)>> \o Dedup(Tail(items), seen \cup {Head(items).id})

ArtistRow(artist) == [spotify_id |-> artist.id, name |-> artist.name]

\* utils.clean_album (the release date is not modelled)
clean_album(album) ==
    [spotify_id |-> album.id, artist_id |-> album.artist_id, name |-> album.name]

\* ON CONFLICT DO UPDATE in place of DO NOTHING: a row whose key is stored
\* replaces the stored row
RECURSIVE InsertIgnore_do_update(_, _)
InsertIgnore_do_update(table, rows) ==
    IF rows = <<>> THEN table
    ELSE InsertIgnore_do_update(
             {r \in table : r.spotify_id # Head(rows).spotify_id} \cup {Head(rows)},
             Tail(rows))

\* INSERT ... VALUES rows ON CONFLICT DO NOTHING: a row is skipped when its
\* key is stored or was inserted by an earlier row of the statement
RECURSIVE InsertIgnore(_, _)
InsertIgnore(table, rows) ==
    IF rows = <<>> THEN table
    ELSE InsertIgnore(IF Head(rows).spotify_id \in Keys(table)
                      THEN table
                      ELSE table \cup {Head(rows)},
                      Tail(rows))

\* the list that sync_artists hands to the insert statement
deduped_artists(artists) ==
    LET first_seen == Dedup(artists, {})
    IN [i \in 1..Len(first_seen) |-> ArtistRow(first_seen[i])]

\* utils.sync_artists
sync_artists(t, artists) ==
    IF deduped_artists(artists) = <<>>
    THEN Done(t)
    ELSE Done([t EXCEPT !.artist = InsertIgnore(@, deduped_artists(artists))])

\* the list that sync_albums hands to the insert statement
cleaned_albums(albums) ==
    LET first_seen == Dedup(albums, {})
    IN [i \in 1..Len(first_seen) |-> clean_album(first_seen[i])]

\* utils.sync_albums; album.artist_id is a foreign key to artist
sync_albums(t, albums) ==
    LET new == InsertIgnore(t.album, cleaned_albums(albums))
    IN IF cleaned_albums(albums) = <<>>
       THEN Done(t)
       ELSE IF \E a \in new \ t.album : a.artist_id \notin Keys(t.artist)
       THEN Raised(t, "IntegrityError")
       ELSE Done([t EXCEPT !.album = new])

\* the filter taking every entry whose is_local is not True
IsNotLocal_unless_true(entry) == entry.is_local # "True"

\* t.get("is_local") is False
IsNotLocal(entry) == entry.is_local = "False"
TrackOf(entry) == entry.track
FirstArtist(track) == track.artists[1]
AlbumOf(track) == [artist_id |-> track.artists[1].id, id |-> track.album.id,
                   name |-> track.album.name]
TrackRow(playlist_id, track) ==
    [spotify_id |-> track.id, playlist_id |-> playlist_id,
     album_id |-> track.album.id, artist_id |-> track.artists[1].id,
     name |-> track.name]

\* the body of the for loop of utils.sync_tracks for one playlist
collect_tracks(acc, playlist_id, raw_tracks) ==
    LET not_local == SelectSeq(raw_tracks, IsNotLocal)
        no_local_tracks == [i \in 1..Len(not_local) |-> TrackOf(not_local[i])]
        n == Len(no_local_tracks)
    IN IF raw_tracks = <<>>
       THEN acc
       ELSE [artists |-> acc.artists \o [i \in 1..n |-> FirstArtist(no_local_tracks[i])],
             albums |-> acc.albums \o [i \in 1..n |-> AlbumOf(no_local_tracks[i])],
             tracks |-> acc.tracks \o
                        [i \in 1..n |-> TrackRow(playlist_id, no_local_tracks[i])]]

\* session.add_all(tracks) at the flush of the commit
InsertTracks(t, tracks) ==
    IF \E i \in 1..Len(tracks) :
          \/ tracks[i].playlist_id \notin Keys(t.playlist)
          \/ tracks[i].artist_id \notin Keys(t.artist)
          \/ tracks[i].album_id \notin Keys(t.album)
    THEN Raised(t, "IntegrityError")
    ELSE Done([t EXCEPT !.track = @ (+) SeqToBag(tracks)])

\* the statements a step sent to the store, beside its outcome
Wrote(out, writes) ==
    [ok |-> out.ok, db |-> out.db, error |-> out.error, writes |-> writes]

\* the INSERT statements for artists and albums of a batch, in the order sent
CatalogWrites(acc) ==
    (IF deduped_artists(acc.artists) # <<>> THEN <<"INSERT artist">> ELSE <<>>)
        \o (IF cleaned_albums(acc.albums) # <<>> THEN <<"INSERT album">> ELSE <<>>)

TrackWrites(acc) == IF acc.tracks # <<>> THEN <<"INSERT track">> ELSE <<>>

\* sync_tracks adding the tracks first and the artists and albums after
store_tracks_tracks_first(t, acc) ==
    LET c == InsertTracks(t, acc.tracks)
        a == sync_artists(c.db, acc.artists)
        b == sync_albums(a.db, acc.albums)
    IN IF ~c.ok THEN Wrote(c, TrackWrites(acc))
       ELSE Wrote(b, TrackWrites(acc) \o CatalogWrites(acc))

\* the end of utils.sync_tracks: sync_artists, sync_albums, add_all, commit
store_tracks(t, acc) ==
    LET a == sync_artists(t, acc.artists)
        b == sync_albums(a.db, acc.albums)
    IN IF ~b.ok THEN Wrote(b, CatalogWrites(acc))
       ELSE Wrote(InsertTracks(b.db, acc.tracks), CatalogWrites(acc) \o TrackWrites(acc))

\* app.sync reinserting the playlists before it deletes them
SyncSteps_insert_before_delete ==
    <<"add_or_get_user", "sync_playlists", "clean_tables", "sync_tracks">>

\* the body of app.sync: the calls it makes, in order
SyncSteps == <<"add_or_get_user", "clean_tables", "sync_playlists", "sync_tracks">>

NoAcc == [artists |-> <<>>, albums |-> <<>>, tracks |-> <<>>]

\* no /sync request in progress; calls are the calls app.sync has made,
\* listed the playlist objects the remote listing held when it was read,
\* inserted the playlist rows sync_playlists added
NoReq == [step |-> 0, user |-> None, calls |-> <<>>, listed |-> {}, inserted |-> {},
          writes |-> <<>>]

\* fetched are the playlists whose tracks sync_tracks asked for
NoResult == [status |-> "none", user |-> None, calls |-> <<>>, listed |-> {},
             inserted |-> {}, fetched |-> {}, writes |-> <<>>]

\* ----------------------------------------------------------------- actions
NoArgs == [refresh_token |-> None, code |-> None, state |-> NoneS,
           error |-> None, next_url |-> NoneS]

Record(op, args, res, out) ==
    /\ pre' = session
    /\ session' = out.session
    /\ last' = [op |-> op, args |-> args,
                \* the response received, if a request was sent at all
                res |-> IF out.posts = <<>> THEN FailedResponse ELSE res,
                t |-> now,
                kind |-> out.kind, value |-> out.value, posts |-> out.posts]
    /\ UNCHANGED syncVars

\* the token endpoint answers only when it is asked: probe is the outcome
\* under a failed response, which sends the same requests as any other
Answers(probe) == IF probe.posts = <<>> THEN {FailedResponse} ELSE TokenResponses

\* a call of utils.refresh_access_token
RefreshAccessToken ==
    \E refresh_token \in {None} \cup RefreshTokens :
      \E res \in Answers(refresh_access_token(session, now, refresh_token, FailedResponse)) :
        /\ Record("refresh_access_token",
                  [NoArgs EXCEPT !.refresh_token = refresh_token], res,
                  refresh_access_token(session, now, refresh_token, res))
        /\ UNCHANGED now

\* a call of utils.get_auth
GetAuth ==
    \E res \in Answers(get_auth(session, now, FailedResponse)) :
        /\ Record("get_auth", NoArgs, res, get_auth(session, now, res))
        /\ UNCHANGED now

\* GET /authorize
GetUserAuth ==
    \E next_url \in {NoneS} \cup NextUrls, token \in UrlSafeTokens :
        /\ Record("get_user_auth", [NoArgs EXCEPT !.next_url = next_url],
                  FailedResponse, get_user_auth(session, next_url, token))
        /\ UNCHANGED now

\* the state values a /callback request may carry: none, one that /authorize
\* produced, one as the provider read it from the URL, or text without ":"
CallbackStates ==
    {NoneS, <<"x">>} \cup AuthorizeStates
        \cup {ProviderState(AuthUrl(state)) : state \in AuthorizeStates}

\* GET /callback
Callback ==
    \E code \in {None} \cup Codes, state \in CallbackStates,
       error \in {None} \cup Errors :
      \E res \in Answers(callback(session, now, code, state, error, FailedResponse)) :
        /\ Record("callback",
                  [NoArgs EXCEPT !.code = code, !.state = state, !.error = error],
                  res, callback(session, now, code, state, error, res))
        /\ UNCHANGED now

\* time passes between requests
Tick ==
    /\ now + TickStep <= MaxTime
    /\ now' = now + TickStep
    /\ UNCHANGED <<session, pre, last>>
    /\ UNCHANGED syncVars

\* ------------------------------------------------- token lifecycle: SpecAuth
\* every session the handlers can have written: each key missing or set
Sessions ==
    [access_token : {None} \cup AccessTokens,
     refresh_token : {None} \cup RefreshTokens,
     expiration_time : {NoTime, StartTime, StartTime + TickStep},
     state : {NoneS} \cup AuthorizeStates]

NoLast == [op |-> "none", args |-> NoArgs, res |-> FailedResponse, t |-> StartTime,
           kind |-> "return", value |-> None, posts |-> <<>>]

InitAuth ==
    /\ session \in Sessions
    /\ now = StartTime
    /\ pre = session
    /\ last = NoLast
    /\ db = EmptyDB
    /\ tx = EmptyDB
    /\ req = NoReq
    /\ result = NoResult

NextAuth ==
    \/ RefreshAccessToken
    \/ GetAuth
    \/ GetUserAuth
    \/ Callback
    \/ Tick

SpecAuth == InitAuth /\ [][NextAuth]_vars

\* --------------------------------------------------------- /sync: Spec
\* GET /me answers with the id of the account of the access token, or without
MeResponses == Users \cup {None}

\* the token endpoint during a sync: it refuses, or issues a token
SyncTokenResponses ==
    {FailedResponse, [access_token |-> "a2", refresh_token |-> None, expires_in |-> 60]}

SyncAnswers(probe) == IF probe.posts = <<>> THEN {FailedResponse} ELSE SyncTokenResponses

\* the call of app.sync that is next
Current == IF req.step \in 1..Len(SyncSteps) THEN SyncSteps[req.step] ELSE "none"

\* an exception leaves the handler: get_db closes the Session, which rolls
\* back; the 500 response carries no session cookie, so the browser keeps
\* the one it sent
Fail(r, committed, fetched) ==
    /\ tx' = committed
    /\ db' = committed
    /\ session' = pre
    /\ req' = NoReq
    /\ result' = [status |-> "failed", user |-> r.user, calls |-> r.calls,
                  listed |-> r.listed, inserted |-> r.inserted, fetched |-> fetched,
                  writes |-> r.writes]

\* every call of app.sync committing what it flushed
Proceed_autocommit(s, working, committed, r, fetched) ==
    /\ session' = s
    /\ db' = working
    /\ IF r.step < Len(SyncSteps)
       THEN /\ tx' = working
            /\ req' = [r EXCEPT !.step = @ + 1]
            /\ UNCHANGED result
       ELSE /\ tx' = working
            /\ req' = NoReq
            /\ result' = [status |-> "ok", user |-> r.user, calls |-> r.calls,
                          listed |-> r.listed, inserted |-> r.inserted,
                          fetched |-> fetched, writes |-> r.writes]

\* a call of app.sync returns: the next one follows, or the handler answers
\* "successfully synced" and get_db closes the Session
Proceed(s, working, committed, r, fetched) ==
    /\ session' = s
    /\ db' = committed
    /\ IF r.step < Len(SyncSteps)
       THEN /\ tx' = working
            /\ req' = [r EXCEPT !.step = @ + 1]
            /\ UNCHANGED result
       ELSE /\ tx' = committed
            /\ req' = NoReq
            /\ result' = [status |-> "ok", user |-> r.user, calls |-> r.calls,
                          listed |-> r.listed, inserted |-> r.inserted,
                          fetched |-> fetched, writes |-> r.writes]

\* GET /sync?user=... arrives with the session cookie
SyncRequest ==
    /\ req.step = 0
    /\ \E user \in Users \cup {None} :
         req' = [NoReq EXCEPT !.step = 1, !.user = user]
    /\ result' = [NoResult EXCEPT !.status = "running"]
    /\ pre' = session
    /\ tx' = db
    /\ UNCHANGED <<session, now, last, db>>

\* utils.get_user_id with an access token: the row is added and committed
get_user_id(t, me) ==
    IF me # None /\ me \notin t.user_id
    THEN [t EXCEPT !.user_id = @ \cup {me}]
    ELSE t

\* add_or_get_user adding the row without looking for it first
ensure_user_no_query(t, user) ==
    IF user \in t.user_id \/ user = None THEN Raised(t, "IntegrityError")
    ELSE Done([t EXCEPT !.user_id = @ \cup {user}])

\* the tail of utils.add_or_get_user: query, add, flush
ensure_user(t, user) ==
    IF user \in t.user_id THEN Done(t)
    ELSE IF user = None THEN Raised(t, "IntegrityError")
    ELSE Done([t EXCEPT !.user_id = @ \cup {user}])

\* utils.add_or_get_user
AddOrGetUser ==
    /\ Current = "add_or_get_user"
    /\ LET r == [req EXCEPT !.calls = Append(@, "add_or_get_user")] IN
       IF Truthy(req.user)
       THEN LET e == ensure_user(tx, req.user) IN
            Proceed(session, e.db, db, r, {})
       ELSE \E res \in SyncAnswers(get_auth(session, now, FailedResponse)) :
              LET a == get_auth(session, now, res) IN
              IF a.kind = "raise"
              THEN Fail(r, db, {})
              ELSE \E me \in MeResponses :
                     LET t1 == get_user_id(tx, me)
                         committed == IF t1 # tx THEN t1 ELSE db
                         e == ensure_user(t1, me)
                     IN IF e.ok
                        THEN Proceed(a.session, e.db, committed, [r EXCEPT !.user = me], {})
                        ELSE Fail(r, committed, {})
    /\ UNCHANGED <<now, pre, last>>

\* utils.clean_tables
CleanTables ==
    /\ Current = "clean_tables"
    /\ Proceed(session, clean_tables(tx, req.user).db, db,
               [req EXCEPT !.calls = Append(@, "clean_tables"),
                           !.writes = Append(@, "DELETE playlist")], {})
    /\ UNCHANGED <<now, pre, last>>

\* utils.sync_playlists
SyncPlaylists ==
    /\ Current = "sync_playlists"
    /\ LET r == [req EXCEPT !.calls = Append(@, "sync_playlists")] IN
       \E res \in SyncAnswers(get_auth(session, now, FailedResponse)) :
         LET a == get_auth(session, now, res) IN
         IF a.kind = "raise"
         THEN Fail(r, db, {})
         ELSE \E listing \in RemoteListings :
                LET raw_playlists == get_playlists_wrapper(Pages(listing)).items
                    p == sync_playlists(tx, req.user, raw_playlists)
                    owned == SelectSeq(raw_playlists,
                                       LAMBDA playlist : playlist.owner.id = req.user)
                    r1 == [r EXCEPT !.listed = Range(listing) \ {NullItem},
                                    !.inserted = Keys(p.db.playlist \ tx.playlist),
                                    !.writes = IF owned # <<>>
                                               THEN Append(@, "INSERT playlist")
                                               ELSE @]
                IN IF p.ok
                   THEN Proceed(a.session, p.db, db, r1, {})
                   ELSE Fail(r1, db, {})
    /\ UNCHANGED <<now, pre, last>>

\* the orders in which a query may return a set of rows
Orders(rows) ==
    {o \in [1..Cardinality(rows) -> rows] : \A i, j \in DOMAIN o : i # j => o[i] # o[j]}

\* the for loop of utils.sync_tracks over the playlists in the order the
\* query returned them; content gives what the remote holds for each
RECURSIVE fetch_tracks(_, _, _)
fetch_tracks(playlists, content, acc) ==
    IF playlists = <<>> THEN acc
    ELSE fetch_tracks(Tail(playlists), content,
            collect_tracks(acc, Head(playlists).spotify_id,
                get_tracks_wrapper(Pages(content[Head(playlists).spotify_id])).items))

\* get_auth called n times in a row while the token endpoint answers res
RECURSIVE get_auth_times(_, _, _, _)
get_auth_times(n, s, t, res) ==
    LET a == get_auth(s, t, res) IN
    IF n <= 1 \/ a.kind = "raise" THEN a ELSE get_auth_times(n - 1, a.session, t, res)

\* utils.sync_tracks
SyncTracks ==
    /\ Current = "sync_tracks"
    /\ LET r == [req EXCEPT !.calls = Append(@, "sync_tracks")]
           mine == PlaylistsOf(tx, req.user)
       IN
       IF mine = {}
       THEN LET w == store_tracks(tx, NoAcc) IN
            Proceed(session, w.db, w.db, [r EXCEPT !.writes = @ \o w.writes], {})
       ELSE \E res \in SyncAnswers(get_auth(session, now, FailedResponse)) :
              LET a == get_auth_times(Cardinality(mine), session, now, res) IN
              IF a.kind = "raise"
              THEN Fail(r, db, {})
              ELSE \E playlists \in Orders(mine), content \in [Keys(mine) -> RemoteEntries] :
                     LET w == store_tracks(tx, fetch_tracks(playlists, content, NoAcc))
                         r1 == [r EXCEPT !.writes = @ \o w.writes]
                     IN IF w.ok
                        THEN Proceed(a.session, w.db, w.db, r1, Keys(mine))
                        ELSE Fail(r1, db, Keys(mine))
    /\ UNCHANGED <<now, pre, last>>

\* a browser whose access token has expired and that holds a refresh token
ExpiredSession ==
    [access_token |-> "a1", refresh_token |-> "r1", expiration_time |-> StartTime,
     state |-> NoneS]

Init ==
    /\ session = ExpiredSession
    /\ now = StartTime
    /\ pre = session
    /\ last = NoLast
    /\ db = EmptyDB
    /\ tx = EmptyDB
    /\ req = NoReq
    /\ result = NoResult

Next ==
    \/ SyncRequest
    \/ AddOrGetUser
    \/ CleanTables
    \/ SyncPlaylists
    \/ SyncTracks
    \/ Tick

Spec == Init /\ [][Next]_vars

\* ------------------------------------------------------------ /sync: claims
\* the playlists of the remote listing that user owns
ListedOwnedBy(listed, user) == {item.id : item \in {x \in listed : x.owner.id = user}}

C2_SyncStepOrder ==
    LET order == <<"add_or_get_user", "clean_tables", "sync_playlists", "sync_tracks">> IN
    /\ req.step > 0 => req.calls = SubSeq(order, 1, req.step - 1)
    /\ (req.step > 0 /\ Len(req.calls) >= 1) => req.user \in tx.user_id
    /\ (req.step > 0 /\ req.calls = SubSeq(order, 1, 2)) =>
            {q \in tx.playlist : q.user_id = req.user} = {}
    /\ result.status = "ok" =>
            (result.calls = order /\ result.fetched = result.inserted)
    /\ result.status = "failed" =>
            (result.calls = SubSeq(order, 1, Len(result.calls))
             /\ result.fetched \subseteq result.inserted)

C2_Witness ==
    /\ result.status = "ok"
    /\ result.calls = <<"add_or_get_user", "clean_tables", "sync_playlists", "sync_tracks">>
    /\ result.fetched = {"p1", "p2"}
    /\ result.inserted = {"p1", "p2"}
    /\ db.track # EmptyBag

\* -------------------------------------------------- token lifecycle: claims
\* the session holds a cached token that get_auth may use at time t
UsableCached(s, t) ==
    /\ s.expiration_time # NoTime
    /\ s.expiration_time > t
    /\ s.access_token # None
    /\ s.access_token # ""

HoldsRefreshToken(s) == s.refresh_token # None /\ s.refresh_token # ""

TokenFields(s) == <<s.access_token, s.expiration_time, s.refresh_token>>

\* C3: with an unexpired expiration_time and a non-empty access_token in the
\* session, get_auth returns exactly that token, sends nothing to the token
\* endpoint and leaves the session as it was.
C3_CachedTokenReturned ==
    (last.op = "get_auth" /\ UsableCached(pre, last.t)) =>
        /\ last.kind = "return"
        /\ last.value = pre.access_token
        /\ last.posts = <<>>
        /\ session = pre

C3_Witness ==
    /\ last.op = "get_auth"
    /\ UsableCached(pre, last.t)
    /\ HoldsRefreshToken(pre)
    /\ last.value = pre.access_token

\* C4: without a usable cached token (expiration_time missing, not strictly
\* in the future, or access_token missing) and with a refresh_token in the
\* session, get_auth sends one refresh request carrying that refresh token
\* and what it returns is the access token of the response, never the
\* cached one.
C4_RefreshOnExpiry ==
    (last.op = "get_auth" /\ ~UsableCached(pre, last.t) /\ HoldsRefreshToken(pre)) =>
        /\ last.posts = <<[grant_type |-> "refresh_token", token |-> pre.refresh_token]>>
        /\ (last.res.access_token # None =>
                last.kind = "return" /\ last.value = last.res.access_token)
        /\ (last.kind = "return" =>
                last.res.access_token # None /\ last.value = last.res.access_token)

C4_Witness ==
    /\ last.op = "get_auth"
    /\ pre.expiration_time = last.t
    /\ pre.access_token = "a1"
    /\ HoldsRefreshToken(pre)
    /\ last.kind = "return"
    /\ last.value = "a2"

\* C5: without a usable cached token, and with no refresh_token or with a
\* refresh that yields no access token, get_auth raises the ValueError; and
\* get_auth never returns None or an empty token.
C5_RaisesWhenExhausted ==
    last.op = "get_auth" =>
        /\ (~UsableCached(pre, last.t)
            /\ (~HoldsRefreshToken(pre) \/ last.res.access_token = None)) =>
                /\ last.kind = "raise"
                /\ last.value = "ValueError: Please call /authorize to generate new tokens"
        /\ last.kind = "return" => (last.value # None /\ last.value # "")

C5_Witness ==
    /\ last.op = "get_auth"
    /\ pre.access_token # None
    /\ HoldsRefreshToken(pre)
    /\ last.posts # <<>>
    /\ last.res.access_token = None
    /\ last.kind = "raise"

\* a refresh request was sent and the response carries an access_token
RefreshSucceeded ==
    /\ last.op = "refresh_access_token"
    /\ last.posts # <<>>
    /\ last.res.access_token # None

C7_RefreshTokenRotation ==
    RefreshSucceeded =>
        /\ session.refresh_token =
              IF last.res.refresh_token # None
              THEN last.res.refresh_token
              ELSE pre.refresh_token
        /\ HoldsRefreshToken(pre) => HoldsRefreshToken(session)

C7_Witness ==
    /\ RefreshSucceeded
    /\ last.res.refresh_token = None
    /\ pre.refresh_token = "r1"
    /\ session.refresh_token = "r1"

\* C8: a refresh whose response has no access_token returns None and leaves
\* access_token, refresh_token and expiration_time as they were.
C8_FailedRefreshChangesNothing ==
    (last.op = "refresh_access_token" /\ last.posts # <<>>
     /\ last.res.access_token = None) =>
        /\ last.kind = "return"
        /\ last.value = None
        /\ TokenFields(session) = TokenFields(pre)

C8_Witness ==
    /\ last.op = "refresh_access_token"
    /\ last.posts # <<>>
    /\ last.res.access_token = None
    /\ pre.access_token # None
    /\ pre.expiration_time # NoTime
    /\ last.value = None

\* C9: refresh_access_token without a refresh_token argument on a session
\* that holds none raises ValueError("Missing refresh token"), sends no
\* request and leaves the session as it was.
C9_MissingRefreshToken ==
    (last.op = "refresh_access_token" /\ last.args.refresh_token = None
     /\ ~HoldsRefreshToken(pre)) =>
        /\ last.kind = "raise"
        /\ last.value = "ValueError: Missing refresh token"
        /\ last.posts = <<>>
        /\ session = pre

C9_Witness ==
    /\ last.op = "refresh_access_token"
    /\ last.args.refresh_token = None
    /\ ~HoldsRefreshToken(pre)
    /\ pre.access_token # None
    /\ last.kind = "raise"

\* the /callback request is a legitimate authorization response: no error,
\* a code, and the state that /authorize stored in this session
Legitimate ==
    /\ last.args.error = None
    /\ last.args.code # None
    /\ pre.state \in AuthorizeStates
    /\ last.args.state = pre.state

\* C10: /callback contacts the token endpoint and writes access_token,
\* expiration_time or refresh_token only for a legitimate authorization
\* response; otherwise the token fields of the session are unchanged.
C10_CallbackStoresOnlyWhenLegitimate ==
    (last.op = "callback" /\ ~Legitimate) =>
        /\ last.posts = <<>>
        /\ TokenFields(session) = TokenFields(pre)

\* a code arrives with no state on a session in which none was ever stored
C10_Witness ==
    /\ last.op = "callback"
    /\ last.args.error = None
    /\ last.args.code # None
    /\ last.args.state = NoneS
    /\ pre.state = NoneS
    /\ session = pre

\* a legitimate response does reach the token endpoint and is stored
C10_WitnessStored ==
    /\ last.op = "callback"
    /\ Legitimate
    /\ last.posts = <<[grant_type |-> "authorization_code", token |-> last.args.code]>>
    /\ session.access_token = last.res.access_token
    /\ TokenFields(session) # TokenFields(pre)

\* ------------------------------------------------ claims about /callback
\* the 401 answer that the tests of /callback expect: a JSON body {"detail": ..}
Unauthorized(detail) ==
    [status |-> 401, media |-> "application/json", body |-> detail, location |-> <<>>]

\* the /callback request is rejected: an error parameter, no code, or a state
\* other than the stored one
Rejected ==
    \/ last.args.error # None
    \/ last.args.code = None
    \/ last.args.state # pre.state

\* C11: every rejected /callback is answered with status 401 and a JSON
\* detail naming the reason: the error parameter, the missing code, or the
\* expected and the received state.
C11_RejectedCallbackIs401 ==
    (last.op = "callback" /\ Rejected) =>
        /\ last.kind = "return"
        /\ last.value =
             IF last.args.error # None
             THEN Unauthorized(<<"Failed due to \"", last.args.error, "\"">>)
             ELSE IF last.args.code = None
             THEN Unauthorized(<<"Failed to receive code from Spotify; please try again">>)
             ELSE Unauthorized(<<"State mismatch! Expected ", pre.state,
                                 " but got ", last.args.state>>)

\* the URL that /authorize redirected to carries the stored state back
Accepted ==
    /\ last.op = "callback"
    /\ last.kind = "return"
    /\ last.args.error = None
    /\ last.args.code # None
    /\ last.args.state = pre.state
    /\ last.res.access_token # None

\* C12: /authorize stores "<token>:<next_url>" as the state and the provider
\* receives that same state from the redirect; an accepted /callback carrying
\* the state redirects (307) to exactly that next_url, also when next_url
\* holds ":", and to "/docs" when next_url was omitted or empty.
C12_NextUrlRoundTrip ==
    /\ last.op = "get_user_auth" =>
          LET next_url == IF last.args.next_url = NoneS THEN <<>>
                          ELSE last.args.next_url
          IN /\ \E token \in UrlSafeTokens : session.state = MakeState(token, next_url)
             /\ last.value.status = 307
             /\ ProviderState(last.value.location) = session.state
    /\ Accepted =>
          \A token \in UrlSafeTokens, next_url \in NextUrls :
              pre.state = MakeState(token, next_url) =>
                  last.value = RedirectResponse(IF next_url = <<>> THEN DOCS_URL
                                                ELSE next_url)

\* ------------------------------------------ artist and album caches: SpecCatalog
MaxBatch == 2

\* artist objects of a track payload; the remote may rename an artist
ArtistPayloads ==
    {[id |-> "ar1", name |-> <<"name of", "ar1">>],
     [id |-> "ar1", name |-> <<"renamed">>],
     [id |-> "ar2", name |-> <<"name of", "ar2">>]}

\* album objects as sync_tracks hands them over: artist_id is the first
\* artist of the track the album came with, so one album id may come with two
AlbumPayloads ==
    {[artist_id |-> "ar1", id |-> "al1", name |-> <<"name of", "al1">>],
     [artist_id |-> "ar2", id |-> "al1", name |-> <<"name of", "al1">>],
     [artist_id |-> "ar1", id |-> "al2", name |-> <<"name of", "al2">>]}

ArtistLists == SeqsUpTo(ArtistPayloads, MaxBatch)
AlbumLists == SeqsUpTo(AlbumPayloads, MaxBatch)

\* a call on the request's Session: before are the rows it saw, submitted the
\* rows it handed to an insert statement, value what it returned and gets the
\* requests it sent to the remote API; an exception rolls the Session back
StoreCall(op, args, out, value, gets, submitted) ==
    /\ last' = [op |-> op, args |-> args, before |-> tx, submitted |-> submitted,
                ok |-> out.ok, error |-> out.error,
                value |-> IF out.ok THEN value ELSE None, gets |-> gets]
    /\ tx' = IF out.ok THEN out.db ELSE db
    /\ UNCHANGED <<session, now, pre, req, result>>

\* a call of utils.sync_artists
SyncArtists ==
    \E artists \in ArtistLists :
        /\ StoreCall("sync_artists", artists, sync_artists(tx, artists),
                     None, 0, deduped_artists(artists))
        /\ UNCHANGED db

\* a call of utils.sync_albums
SyncAlbums ==
    \E albums \in AlbumLists :
        /\ StoreCall("sync_albums", albums, sync_albums(tx, albums),
                     None, 0, cleaned_albums(albums))
        /\ UNCHANGED db

\* session.commit()
Commit ==
    /\ db # tx
    /\ db' = tx
    /\ UNCHANGED <<session, now, pre, last, tx, req, result>>

NoCall == [op |-> "none", args |-> <<>>, before |-> EmptyDB, submitted |-> <<>>,
           ok |-> TRUE, error |-> None, value |-> None, gets |-> 0]

InitCatalog ==
    /\ session = ExpiredSession
    /\ now = StartTime
    /\ pre = session
    /\ last = NoCall
    /\ db = EmptyDB
    /\ tx = EmptyDB
    /\ req = NoReq
    /\ result = NoResult

NextCatalog ==
    \/ SyncArtists
    \/ SyncAlbums
    \/ Commit

SpecCatalog == InitCatalog /\ [][NextCatalog]_vars

\* no two rows of a table share a primary key
KeyUnique(table) == \A a, b \in table : a.spotify_id = b.spotify_id => a = b

\* rows holds no id twice
NoDuplicateIds(rows) ==
    \A i, j \in 1..Len(rows) : rows[i].spotify_id = rows[j].spotify_id => i = j

\* the ids of a list of remote payloads
IdsOf(items) == {items[i].id : i \in 1..Len(items)}

\* item i is the first of the list with its id
IsFirstOccurrence(items, i) == \A j \in 1..(i - 1) : items[j].id # items[i].id

\* C13: sync_artists and sync_albums hand each distinct id of their input to
\* the insert statement once, as its first occurrence in the list; neither
\* fails on a duplicate key, and afterwards the table holds one row for each
\* id stored before or synced by the call.
C13_NoDuplicateKeyInserted ==
    /\ KeyUnique(tx.artist) /\ KeyUnique(tx.album)
    /\ KeyUnique(db.artist) /\ KeyUnique(db.album)
    /\ last.op = "sync_artists" =>
          /\ NoDuplicateIds(last.submitted)
          /\ Keys(Range(last.submitted)) = IdsOf(last.args)
          /\ \A k \in 1..Len(last.submitted) :
                \E i \in 1..Len(last.args) :
                    /\ IsFirstOccurrence(last.args, i)
                    /\ last.submitted[k] = ArtistRow(last.args[i])
          /\ last.ok
          /\ Keys(tx.artist) = Keys(last.before.artist) \cup IdsOf(last.args)
    /\ last.op = "sync_albums" =>
          /\ NoDuplicateIds(last.submitted)
          /\ Keys(Range(last.submitted)) = IdsOf(last.args)
          /\ \A k \in 1..Len(last.submitted) :
                \E i \in 1..Len(last.args) :
                    /\ IsFirstOccurrence(last.args, i)
                    /\ last.submitted[k] = clean_album(last.args[i])
          /\ last.ok => Keys(tx.album) = Keys(last.before.album) \cup IdsOf(last.args)
          \* the only failure is an album of an artist that is not stored
          /\ ~last.ok =>
                \E k \in 1..Len(last.submitted) :
                    last.submitted[k].artist_id \notin Keys(last.before.artist)

\* a batch that names one album id twice, with different first artists, is
\* stored on top of an album table that is not empty
C13_Witness ==
    /\ last.op = "sync_albums"
    /\ last.ok
    /\ Len(last.args) = 2
    /\ last.args[1].id = last.args[2].id
    /\ last.args[1] # last.args[2]
    /\ Len(last.submitted) = 1
    /\ last.before.album # {}
    /\ tx.album # last.before.album

\* the rows of a submitted list whose key was not stored before the call
NewRows(submitted, table) ==
    {submitted[k] : k \in {i \in 1..Len(submitted) :
                              submitted[i].spotify_id \notin Keys(table)}}

\* C14: sync_artists and sync_albums leave every stored row as it was, also
\* when the payload synced for its id differs, and still insert the rows of
\* the batch whose id was not stored.
C14_StoredRowsIgnored ==
    /\ last.op = "sync_artists" =>
          /\ tx.artist = last.before.artist
                             \cup NewRows(last.submitted, last.before.artist)
          /\ tx.album = last.before.album
    /\ (last.op = "sync_albums" /\ last.ok) =>
          /\ tx.album = last.before.album
                            \cup NewRows(last.submitted, last.before.album)
          /\ tx.artist = last.before.artist

\* a renamed artist arrives in one batch with an artist not yet stored
C14_Witness ==
    /\ last.op = "sync_artists"
    /\ [spotify_id |-> "ar1", name |-> <<"name of", "ar1">>] \in last.before.artist
    /\ last.args = <<[id |-> "ar1", name |-> <<"renamed">>],
                     [id |-> "ar2", name |-> <<"name of", "ar2">>]>>
    /\ tx.artist = last.before.artist
                       \cup {[spotify_id |-> "ar2", name |-> <<"name of", "ar2">>]}

\* an album already stored under one artist arrives under another
C14_WitnessAlbum ==
    /\ last.op = "sync_albums"
    /\ last.ok
    /\ \E k \in 1..Len(last.submitted) : \E row \in last.before.album :
           /\ row.spotify_id = last.submitted[k].spotify_id
           /\ row.artist_id # last.submitted[k].artist_id
    /\ tx.album # last.before.album

\* --------------------------------------- users, playlists, tracks: SpecStore
MaxRows == 4

\* the user that GET /test deletes
TEST_USER == "u1"

\* app.func_test: DELETE FROM user_id WHERE user_id = TEST_USER, with the
\* ON DELETE CASCADE of playlist.user_id and of track.playlist_id
func_test(t) ==
    LET gone == Keys(PlaylistsOf(t, TEST_USER))
        kept == {r \in DOMAIN t.track : r.playlist_id \notin gone}
    IN Done([t EXCEPT !.user_id = @ \ {TEST_USER},
                      !.playlist = {p \in @ : p.user_id # TEST_USER},
                      !.track = [r \in kept |-> t.track[r]]])

\* utils.add_or_get_user called with user, while GET /me would answer me:
\* the rows it leaves and the requests it sends to the remote API
add_or_get_user(t, user, me) ==
    IF Truthy(user)
    THEN [out |-> ensure_user(t, user), value |-> user, gets |-> 0]
    ELSE [out |-> ensure_user(get_user_id(t, me), me), value |-> me, gets |-> 1]

\* a call of a function of utils on a Session that its caller then commits
Committed == db' = tx'

\* utils.add_or_get_user
AddOrGetUserCall ==
    /\ \E user \in Users \cup {None} :
         \E me \in IF Truthy(user) THEN {None} ELSE MeResponses :
           LET a == add_or_get_user(tx, user, me) IN
           StoreCall("add_or_get_user", [user |-> user, me |-> me],
                     a.out, a.value, a.gets, <<>>)
    /\ Committed

\* utils.get_user_id called with an access token
GetUserIdCall ==
    /\ \E me \in MeResponses :
         StoreCall("get_user_id", [user |-> None, me |-> me],
                   Done(get_user_id(tx, me)), me, 1, <<>>)
    /\ Committed

\* utils.sync_playlists while the remote lists one playlist
PutPlaylist ==
    /\ \E user \in Users, item \in PlaylistItems :
         StoreCall("sync_playlists", [user |-> user, item |-> item],
                   sync_playlists(tx, user, <<item>>), None, 1, <<>>)
    /\ Committed

\* the tracks of one stored playlist are fetched and stored as sync_tracks
\* stores them
PutTracks ==
    /\ \E playlist_id \in Keys(tx.playlist), content \in RemoteEntries :
         LET fetched == get_tracks_wrapper(Pages(content))
             acc == collect_tracks(NoAcc, playlist_id, fetched.items)
         IN /\ BagCardinality(tx.track) + Len(acc.tracks) <= MaxRows
            /\ StoreCall("sync_tracks", [playlist_id |-> playlist_id, content |-> content],
                         store_tracks(tx, acc), None, fetched.gets, acc.tracks)
    /\ Committed

\* utils.clean_tables
CleanTablesCall ==
    /\ \E user \in Users :
         StoreCall("clean_tables", [user |-> user], clean_tables(tx, user),
                   None, 0, <<>>)
    /\ Committed

\* GET /test
FuncTest ==
    /\ StoreCall("func_test", [user |-> TEST_USER], func_test(tx), None, 0, <<>>)
    /\ Committed

\* ------------------------------------------------------------ /getFrequent
MaxTop == 2

MediaTypes == {"tracks", "artists", "albums"}

\* the column of track that the sub query groups by
GroupColumn(r, media_type) ==
    IF media_type = "tracks" THEN r.spotify_id
    ELSE IF media_type = "artists" THEN r.artist_id
    ELSE r.album_id

\* func.count(..) of one group: the rows of track, of every playlist, whose
\* column has the value key
Freq(t, media_type, key) ==
    BagCardinality([r \in {x \in DOMAIN t.track : GroupColumn(x, media_type) = key}
                      |-> t.track[r]])

Groups(t, media_type) == {GroupColumn(r, media_type) : r \in DOMAIN t.track}

\* group_by(..).order_by(desc("freq")).limit(top): any top groups such that
\* none left out has a greater count; the order among equal counts is free
SubQueries(t, media_type, top) ==
    LET groups == Groups(t, media_type)
        n == IF top < Cardinality(groups) THEN top ELSE Cardinality(groups)
    IN {S \in SUBSET groups :
          /\ Cardinality(S) = n
          /\ \A k \in S, j \in groups \ S :
                Freq(t, media_type, k) >= Freq(t, media_type, j)}

\* session.query(<name>, sub_query.c.freq).join(sub_query, ..): one result
\* row (name, freq) per row of the joined table whose key is in the sub
\* query, as a bag; for tracks the joined table is track itself
Joined(t, media_type, sub_query) ==
    IF media_type = "tracks"
    THEN LET matching == {x \in DOMAIN t.track : x.spotify_id \in sub_query}
             row(x) == [name |-> x.name, freq |-> Freq(t, media_type, x.spotify_id)]
         IN [e \in {row(x) : x \in matching} |->
                BagCardinality([x \in {y \in matching : row(y) = e} |-> t.track[x]])]
    ELSE LET table == IF media_type = "artists" THEN t.artist ELSE t.album
             matching == {x \in table : x.spotify_id \in sub_query}
             row(x) == [name |-> x.name, freq |-> Freq(t, media_type, x.spotify_id)]
         IN [e \in {row(x) : x \in matching} |->
                Cardinality({y \in matching : row(y) = e})]

\* data.order_by(sub_query.c.freq.desc()).all(): the rows in any order of
\* non-increasing freq
Data(rows) ==
    {seq \in [1..BagCardinality(rows) -> DOMAIN rows] :
        /\ \A e \in DOMAIN rows :
              Cardinality({i \in DOMAIN seq : seq[i] = e}) = rows[e]
        /\ \A i, j \in DOMAIN seq : i < j => seq[i].freq >= seq[j].freq}

\* GET /getFrequent?user=..&media_type=..&top=..: add_or_get_user, the
\* query, and the rows handed to freq(); the Session is closed without a
\* commit, so only what get_user_id committed stays
GetFrequent ==
    /\ \E user \in Users \cup {None}, media_type \in MediaTypes, top \in 1..MaxTop :
         \E me \in IF Truthy(user) THEN {None} ELSE MeResponses :
           LET a == add_or_get_user(tx, user, me)
               committed == IF Truthy(user) THEN db ELSE get_user_id(db, me)
               args == [user |-> a.value, media_type |-> media_type, top |-> top]
           IN IF ~a.out.ok
              THEN /\ StoreCall("get_frequent", args, Raised(committed, a.out.error),
                                None, a.gets, <<>>)
                   /\ db' = committed
              ELSE \E sub_query \in SubQueries(a.out.db, media_type, top) :
                     \E data \in Data(Joined(a.out.db, media_type, sub_query)) :
                       /\ StoreCall("get_frequent", args, Done(committed),
                                    data, a.gets, <<>>)
                       /\ db' = committed

\* ----------------------------------------------------------------- /report
REPORT_HEADER ==
    <<"playlist_name", "track_name", "artist_name", "album_name",
      "playlist_spotify_id", "track_spotify_id", "artist_spotify_id",
      "album_spotify_id">>

\* one line of the CSV: a track row joined with its playlist, its artist
\* and its album (the release date is not modelled)
ReportLine(t, r) ==
    LET playlist == CHOOSE p \in t.playlist : p.spotify_id = r.playlist_id
        artist == CHOOSE a \in t.artist : a.spotify_id = r.artist_id
        album == CHOOSE a \in t.album : a.spotify_id = r.album_id
    IN <<playlist.name, r.name, artist.name, album.name,
         playlist.spotify_id, r.spotify_id, artist.spotify_id, album.spotify_id>>

\* the CSV of GET /report for user: the header and, as a bag, one line per
\* track row of a playlist of user; 404 when the user is not stored
get_report(t, user) ==
    IF user \notin t.user_id
    THEN [status |-> 404, header |-> <<>>, lines |-> EmptyBag]
    ELSE LET mine == Keys(PlaylistsOf(t, user))
             rows == {r \in DOMAIN t.track : r.playlist_id \in mine}
             line(r) == ReportLine(t, r)
         IN [status |-> 200, header |-> REPORT_HEADER,
             lines |-> [l \in {line(r) : r \in rows} |->
                          BagCardinality([r \in {x \in rows : line(x) = l}
                                            |-> t.track[r]])]]

\* GET /report?user=..: the user is the one given or the one GET /me names
GetReport ==
    /\ \E user \in Users \cup {None} :
         \E me \in IF Truthy(user) THEN {None} ELSE MeResponses :
           LET seen == IF Truthy(user) THEN tx ELSE get_user_id(tx, me)
               resolved == IF Truthy(user) THEN user ELSE me
           IN StoreCall("get_report", [user |-> resolved, given |-> user], Done(seen),
                        get_report(seen, resolved),
                        IF Truthy(user) THEN 0 ELSE 1, <<>>)
    /\ Committed

InitStore == InitCatalog

NextStore ==
    \/ AddOrGetUserCall
    \/ GetUserIdCall
    \/ PutPlaylist
    \/ PutTracks
    \/ CleanTablesCall
    \/ FuncTest
    \/ GetFrequent
    \/ GetReport

SpecStore == InitStore /\ [][NextStore]_vars

\* every playlist has its user row and every track its playlist row
NoOrphans(t) ==
    /\ \A p \in t.playlist : p.user_id \in t.user_id
    /\ \A r \in DOMAIN t.track : r.playlist_id \in Keys(t.playlist)

\* the track rows of the playlists that user had in table t, among those of t2
TracksUnder(t2, t, user) ==
    {r \in DOMAIN t2.track : r.playlist_id \in Keys(PlaylistsOf(t, user))}

\* C15: after clean_tables(U) no playlist of U remains and no track of a
\* playlist it deleted; deleting a user row removes that user's playlists
\* and their tracks as well; no playlist or track is ever left an orphan.
C15_CleanTablesCascades ==
    /\ NoOrphans(tx) /\ NoOrphans(db)
    /\ last.op = "clean_tables" =>
          /\ PlaylistsOf(tx, last.args.user) = {}
          /\ TracksUnder(tx, last.before, last.args.user) = {}
    /\ last.op = "func_test" =>
          /\ last.args.user \notin tx.user_id
          /\ PlaylistsOf(tx, last.args.user) = {}
          /\ TracksUnder(tx, last.before, last.args.user) = {}

\* clean_tables deleted a playlist that held tracks
C15_Witness ==
    /\ last.op = "clean_tables"
    /\ TracksUnder(last.before, last.before, last.args.user) # {}
    /\ tx.track # last.before.track
    /\ tx.playlist # {}

\* the user row of a user with playlists and tracks was deleted
C15_WitnessUser ==
    /\ last.op = "func_test"
    /\ TracksUnder(last.before, last.before, TEST_USER) # {}
    /\ TEST_USER \notin tx.user_id
    /\ tx.track # last.before.track

\* the user id that a call of add_or_get_user or get_user_id is for
CalledFor ==
    IF last.op = "add_or_get_user" /\ Truthy(last.args.user)
    THEN last.args.user
    ELSE last.args.me

\* C18: a call of get_user_id or add_or_get_user for an id that is not stored
\* adds one row for it and returns the id; a call for a stored id adds
\* nothing and returns the id; add_or_get_user with an explicit user sends no
\* request to the remote API; get_user_id returns None and adds nothing when
\* the remote response has no id.
C18_UserRowsAddedOnce ==
    last.op \in {"add_or_get_user", "get_user_id"} =>
        /\ (CalledFor # None /\ CalledFor \notin last.before.user_id) =>
              /\ last.ok
              /\ last.value = CalledFor
              /\ tx = [last.before EXCEPT !.user_id = @ \cup {CalledFor}]
        /\ CalledFor \in last.before.user_id =>
              /\ last.ok
              /\ last.value = CalledFor
              /\ tx = last.before
        /\ (last.op = "add_or_get_user" /\ Truthy(last.args.user)) => last.gets = 0
        /\ (last.op = "get_user_id" /\ last.args.me = None) =>
              /\ last.ok
              /\ last.value = None
              /\ tx = last.before

\* add_or_get_user is called with an explicit user that is already stored,
\* next to another user
C18_Witness ==
    /\ last.op = "add_or_get_user"
    /\ last.args.user = "u2"
    /\ last.before.user_id = {"u1", "u2"}
    /\ last.value = "u2"
    /\ last.gets = 0
    /\ tx = last.before

\* get_user_id adds the row of the account the remote names
C18_WitnessAdded ==
    /\ last.op = "get_user_id"
    /\ last.args.me = "u2"
    /\ last.before.user_id = {"u1"}
    /\ tx.user_id = {"u1", "u2"}
    /\ db = tx

\* the rows of table t that do not belong to user: the other user rows, the
\* playlists of other users and the tracks of those playlists
RowsOfOthers(t, user) ==
    LET playlists == {p \in t.playlist : p.user_id # user}
        tracks == {r \in DOMAIN t.track : r.playlist_id \in Keys(playlists)}
    IN [user_id |-> t.user_id \ {user},
        playlist |-> playlists,
        track |-> [r \in tracks |-> t.track[r]]]

\* C16: every step of a /sync for user U, clean_tables included, leaves the
\* user rows other than U, the playlists of other users and the tracks of
\* those playlists unchanged, in the store and in the view of the request,
\* however whole syncs of different users follow one another.
C16_SyncIsolation ==
    [][req.step > 0 =>
         LET U == IF req'.step > 0 THEN req'.user ELSE result'.user IN
         /\ RowsOfOthers(db', U) = RowsOfOthers(db, U)
         /\ RowsOfOthers(tx', U) = RowsOfOthers(tx, U)]_vars

\* a sync of u1 that stored a playlist has finished while the store holds a
\* playlist of u2 with tracks
C16_Witness ==
    /\ result.status = "ok"
    /\ result.user = "u1"
    /\ result.inserted # {}
    /\ \E p \in db.playlist :
          /\ p.user_id = "u2"
          /\ \E r \in DOMAIN db.track : r.playlist_id = p.spotify_id

\* ------------------------------------------------ paginated fetch: SpecFetch
MaxPages == 3

\* the responses the remote may give one after the other, each with a "next"
\* link but the last: any items, nulls and empty pages included
PagesOf(items) == SeqsUpTo(SeqsUpTo(items, PageSize), MaxPages) \ {<<>>}

PlaylistPages ==
    PagesOf({[id |-> i, name |-> <<"name of", i>>, owner |-> [id |-> "u1"]] :
               i \in PlaylistIds} \cup {NullItem})
TrackPages == PagesOf({Entry1, LocalEntry, NullItem})

\* a call of utils.get_playlists_wrapper while the remote answers last.args
GetPlaylistsWrapper ==
    /\ last.op = "none"
    /\ last.args \in PlaylistPages
    /\ LET w == get_playlists_wrapper(last.args) IN
       StoreCall("get_playlists_wrapper", last.args, Done(tx), w.items, w.gets, <<>>)
    /\ UNCHANGED db

\* a call of utils.get_tracks_wrapper while the remote answers last.args
GetTracksWrapper ==
    /\ last.op = "none"
    /\ last.args \in TrackPages
    /\ LET w == get_tracks_wrapper(last.args) IN
       StoreCall("get_tracks_wrapper", last.args, Done(tx), w.items, w.gets, <<>>)
    /\ UNCHANGED db

\* the responses that the remote will give are drawn, no call made yet
InitFetch ==
    /\ session = ExpiredSession
    /\ now = StartTime
    /\ pre = session
    /\ \E pages \in PlaylistPages \cup TrackPages : last = [NoCall EXCEPT !.args = pages]
    /\ db = EmptyDB
    /\ tx = EmptyDB
    /\ req = NoReq
    /\ result = NoResult

NextFetch ==
    \/ GetPlaylistsWrapper
    \/ GetTracksWrapper

SpecFetch == InitFetch /\ [][NextFetch]_vars

\* the items of the responses one after the other
RECURSIVE Concat(_)
Concat(pages) == IF pages = <<>> THEN <<>> ELSE Head(pages) \o Concat(Tail(pages))

\* seq without its nulls, in order
RECURSIVE WithoutNulls(_)
WithoutNulls(seq) ==
    IF seq = <<>> THEN <<>>
    ELSE IF Head(seq) = NullItem THEN WithoutNulls(Tail(seq))
    ELSE <<Head(seq)>> \o WithoutNulls(Tail(seq))

\* C17: get_playlists_wrapper and get_tracks_wrapper send one request per
\* page, following "next" until a response has none, and return the items
\* of all pages in page order without the nulls; when the first response
\* has no items they return the empty list after that one request.
C17_PaginatedFetch ==
    last.op \in {"get_playlists_wrapper", "get_tracks_wrapper"} =>
        IF last.args[1] = <<>>
        THEN last.value = <<>> /\ last.gets = 1
        ELSE /\ last.gets = Len(last.args)
             /\ last.value = WithoutNulls(Concat(last.args))

\* three pages, a null on the second, all fetched
C17_Witness ==
    /\ last.op = "get_tracks_wrapper"
    /\ Len(last.args) = 3
    /\ last.args[2] = <<NullItem>>
    /\ last.args[3] # <<>>
    /\ last.gets = 3
    /\ Len(last.value) = 2

\* ------------------------------------------------- claims about /getFrequent
\* the name under which the chart shows a track row for a media type
ChartName(t, r, media_type) ==
    IF media_type = "tracks" THEN r.name
    ELSE IF media_type = "artists"
    THEN (CHOOSE a \in t.artist : a.spotify_id = r.artist_id).name
    ELSE (CHOOSE a \in t.album : a.spotify_id = r.album_id).name

\* the occurrences of the item called name in the playlists of user
OccurrencesFor(t, user, media_type, name) ==
    LET mine == Keys(PlaylistsOf(t, user))
        rows == {r \in DOMAIN t.track :
                   r.playlist_id \in mine /\ ChartName(t, r, media_type) = name}
    IN BagCardinality([r \in rows |-> t.track[r]])

\* C19: the report requested for user U counts only the occurrences in the
\* playlists of U: every entry is an item that occurs in a playlist of U,
\* with the number of its occurrences there as its count.
C19_FrequentCountsOwnPlaylists ==
    (last.op = "get_frequent" /\ last.ok) =>
        \A i \in 1..Len(last.value) :
            /\ OccurrencesFor(last.before, last.args.user, last.args.media_type,
                              last.value[i].name) > 0
            /\ last.value[i].freq =
                  OccurrencesFor(last.before, last.args.user, last.args.media_type,
                                 last.value[i].name)

\* the occurrences of the item called name in all playlists
Occurrences(t, media_type, name) ==
    LET rows == {r \in DOMAIN t.track : ChartName(t, r, media_type) = name}
    IN BagCardinality([r \in rows |-> t.track[r]])

\* C20: for every media type and every N = top, the data handed to the chart
\* has at most N entries, one per distinct item, in non-increasing order of
\* count, and every item left out has a count no greater than the smallest
\* count included.
C20_FrequentLimitedAndOrdered ==
    (last.op = "get_frequent" /\ last.ok) =>
        LET data == last.value
            shown == {data[i].name : i \in 1..Len(data)}
            names == {ChartName(last.before, r, last.args.media_type) :
                        r \in DOMAIN last.before.track}
        IN /\ Len(data) <= last.args.top
           /\ \A i, j \in 1..Len(data) : data[i].name = data[j].name => i = j
           /\ \A i, j \in 1..Len(data) : i < j => data[i].freq >= data[j].freq
           /\ \A name \in names \ shown : \A i \in 1..Len(data) :
                 Occurrences(last.before, last.args.media_type, name) <= data[i].freq

\* ------------------------------------------------------ claims about /report
\* the track rows of table t that lie in a playlist of user, as a bag
TracksOfUser(t, user) ==
    LET mine == {p.spotify_id : p \in {q \in t.playlist : q.user_id = user}}
    IN [r \in {x \in DOMAIN t.track : x.playlist_id \in mine} |-> t.track[r]]

Rank(statement) ==
    CASE statement = "DELETE playlist" -> 1
      [] statement = "INSERT playlist" -> 2
      [] statement = "INSERT artist" -> 3
      [] statement = "INSERT album" -> 4
      [] statement = "INSERT track" -> 5

\* C22 as stated: within one sync the artist and album rows are written after
\* the user's tracks have been reinserted, that is, no INSERT of artists or
\* albums precedes the INSERT of the tracks.
C22_CatalogAfterTracks ==
    \A i, j \in DOMAIN result.writes :
        (result.writes[i] \in {"INSERT artist", "INSERT album"}
            /\ result.writes[j] = "INSERT track") => j < i

\* C22 amended: within one sync the statements are sent in the order delete of
\* the user's playlists, insert of the user's playlists, upsert of the
\* referenced artists, upsert of the referenced albums, insert of the user's
\* tracks; the artists and albums are written after the playlists and before
\* the tracks: when the INSERT of the tracks is sent, those of the artists and
\* of the albums have been sent before it.
C22_CatalogBeforeTracks ==
    /\ \A i, j \in DOMAIN result.writes :
            i < j => Rank(result.writes[i]) < Rank(result.writes[j])
    /\ \A j \in DOMAIN result.writes :
            result.writes[j] = "INSERT track" =>
                \A statement \in {"INSERT artist", "INSERT album"} :
                    \E i \in 1..(j - 1) : result.writes[i] = statement

\* a finished sync that sent all five statements
C22_Witness ==
    /\ result.status = "ok"
    /\ result.writes = <<"DELETE playlist", "INSERT playlist", "INSERT artist",
                         "INSERT album", "INSERT track">>

\* ---------------------------------------------------------------------------
\* What sync_tracks stores for the entries of a playlist
\* ---------------------------------------------------------------------------

\* the places of a playlist's content that hold an entry with is_local False
Stored(content) ==
    {i \in DOMAIN content : content[i] # NullItem /\ content[i].is_local = "False"}

\* the track row expected for the entry at place i
RowFor(playlist_id, content, i) ==
    [spotify_id |-> content[i].track.id, playlist_id |-> playlist_id,
     album_id |-> content[i].track.album.id,
     artist_id |-> content[i].track.artists[1].id,
     name |-> content[i].track.name]

\* one track row for every entry with is_local False, repeated entries
\* repeated, and no artist or album but those of such entries
StoresNonLocalOnly ==
    LET content == last.args.content
        kept == Stored(content)
        row(i) == RowFor(last.args.playlist_id, content, i)
    IN /\ \A r \in DOMAIN tx.track \cup DOMAIN last.before.track :
              CopiesIn(r, tx.track) =
                  CopiesIn(r, last.before.track)
                      + Cardinality({i \in kept : row(i) = r})
       /\ Keys(tx.artist) =
              Keys(last.before.artist) \cup {content[i].track.artists[1].id : i \in kept}
       /\ Keys(tx.album) =
              Keys(last.before.album) \cup {content[i].track.album.id : i \in kept}

\* C23 as stated: sync_tracks stores one track row for every fetched entry
\* whose is_local is exactly False and nothing for any other entry, and each
\* stored track and album carries the id of the track's first listed artist:
\* for every stored track, its row and the row of its album have the first
\* artist of the track as artist_id.
C23_FirstArtistOnTrackAndAlbum ==
    (last.op = "sync_tracks" /\ last.ok) =>
        /\ StoresNonLocalOnly
        /\ \A i \in Stored(last.args.content) :
              \A a \in tx.album :
                  a.spotify_id = last.args.content[i].track.album.id =>
                      a.artist_id = last.args.content[i].track.artists[1].id

\* C23 amended: sync_tracks stores one track row for every fetched entry whose
\* is_local is exactly False (repeated entries give repeated rows) and nothing
\* for any other entry; each stored track carries the id of its first listed
\* artist, and each album row the call adds carries the first listed artist of
\* the first fetched entry of that album, while an album stored before keeps
\* the artist_id it has.
C23_StoresNonLocalEntries ==
    (last.op = "sync_tracks" /\ last.ok) =>
        LET content == last.args.content
            kept == Stored(content)
            first(album_id) ==
                CHOOSE i \in kept :
                    /\ content[i].track.album.id = album_id
                    /\ \A j \in kept : content[j].track.album.id = album_id => i <= j
        IN /\ StoresNonLocalOnly
           /\ \A a \in last.before.album : a \in tx.album
           /\ \A a \in tx.album \ last.before.album :
                  a.artist_id = content[first(a.spotify_id)].track.artists[1].id

\* a playlist with a local file, an entry without is_local and two tracks of
\* one album whose first artists differ has been stored
C23_Witness ==
    /\ last.op = "sync_tracks"
    /\ last.ok
    /\ last.args.content = <<LocalEntry, NullItem, AbsentEntry, Entry2, Entry1>>
    /\ last.before.album = {}
    /\ BagCardinality(tx.track) = BagCardinality(last.before.track) + 2

\* ---------------------------------------------------------------------------
\* A failed sync commits nothing of the user's playlists and tracks
\* ---------------------------------------------------------------------------

\* C24: every step of a /sync but the one that ends it with "successfully
\* synced" leaves the committed playlists and tracks as they were, so a sync
\* that fails after clean_tables leaves those of before the sync; when a step
\* fails the session is closed without commit, its view falling back to the
\* committed rows; the committed playlists change only at the final commit,
\* where the playlists of the user are the reinserted ones.
C24_SyncAllOrNothing ==
    [][req.step > 0 =>
         /\ result'.status # "ok" =>
                /\ db'.playlist = db.playlist
                /\ db'.track = db.track
         /\ result'.status = "failed" => tx' = db'
         /\ result'.status = "ok" =>
                Keys(PlaylistsOf(db', result'.user)) = result'.inserted]_vars

\* a sync failed in sync_tracks after it had deleted the user's playlists and
\* inserted others, and the committed playlists of the user, with their
\* tracks, are still there
C24_Witness ==
    /\ result.status = "failed"
    /\ result.calls = <<"add_or_get_user", "clean_tables", "sync_playlists", "sync_tracks">>
    /\ result.inserted # {}
    /\ \E p \in PlaylistsOf(db, result.user) :
          /\ p.spotify_id \notin result.inserted
          /\ \E r \in DOMAIN db.track : r.playlist_id = p.spotify_id

\* ---------------------------------------------------------------------------
\* Referential integrity of the committed rows
\* ---------------------------------------------------------------------------

\* every foreign key of t that is not null names a stored row
ForeignKeysHold(t) ==
    /\ \A p \in t.playlist : p.user_id \in t.user_id
    /\ \A r \in DOMAIN t.track :
          /\ r.playlist_id \in Keys(t.playlist)
          /\ r.artist_id # None => r.artist_id \in Keys(t.artist)
          /\ r.album_id # None => r.album_id \in Keys(t.album)
    /\ \A a \in t.album : a.artist_id # None => a.artist_id \in Keys(t.artist)

\* C25: in every committed state reached by any sequence of syncs, every
\* playlist's user_id is a stored user, every track's playlist_id is a stored
\* playlist, every track's non-null artist_id and album_id are a stored artist
\* and a stored album, and every album's artist_id is a stored artist; the
\* rows flushed by a running sync satisfy the same, the artists being written
\* before the albums and both before the tracks.
C25_ReferentialIntegrity ==
    /\ ForeignKeysHold(db)
    /\ ForeignKeysHold(tx)
    /\ \A i, j \in DOMAIN result.writes :
          (i < j /\ Rank(result.writes[i]) >= 3 /\ Rank(result.writes[j]) >= 3)
              => Rank(result.writes[i]) < Rank(result.writes[j])

\* after several syncs the committed store holds playlists of both users with
\* tracks, and an album whose artist is not the artist of one of its tracks
C25_Witness ==
    /\ result.status = "ok"
    /\ \A user \in Users :
          \E p \in PlaylistsOf(db, user) :
              \E r \in DOMAIN db.track : r.playlist_id = p.spotify_id
    /\ \E a \in db.album : \E r \in DOMAIN db.track :
          r.album_id = a.spotify_id /\ r.artist_id # a.artist_id

\* ---------------------------------------------------------------------------
\* Repeated syncs against one remote state: SpecTwice
\* ---------------------------------------------------------------------------
MaxSyncs == 2

\* what GET /sync?user=... leaves when every remote call is answered: the four
\* calls of app.sync in a row, for each order in which the query of
\* sync_tracks may return the user's playlists
sync_outcomes(t, user, listing, content) ==
    LET e == ensure_user(t, user)
        c == clean_tables(e.db, user)
        p == sync_playlists(c.db, user, get_playlists_wrapper(Pages(listing)).items)
    IN IF ~e.ok THEN {e}
       ELSE IF ~p.ok THEN {p}
       ELSE {store_tracks(p.db, fetch_tracks(playlists, content, NoAcc)) :
                playlists \in Orders(PlaylistsOf(p.db, user))}

\* the remote state is drawn and stays as it is: the user asked for, the
\* listing and the entries of every playlist
InitTwice ==
    /\ session = ExpiredSession
    /\ now = StartTime
    /\ pre = session
    /\ \E user \in Users, listing \in RemoteListings,
          content \in [PlaylistIds -> RemoteEntries] :
         last = [NoCall EXCEPT !.args = [user |-> user, listing |-> listing,
                                         content |-> content]]
    /\ db = EmptyDB
    /\ tx = EmptyDB
    /\ req = NoReq
    /\ result = NoResult

\* before the remote was in the state drawn, some user synced one playlist
EarlierSync ==
    /\ last.op = "none"
    /\ \E item \in PlaylistItems, entries \in RemoteEntries, user \in Users :
         \E out \in sync_outcomes(tx, user, <<item>>, [i \in PlaylistIds |-> entries]) :
           /\ out.ok
           /\ tx' = out.db
           /\ db' = out.db
    /\ last' = [last EXCEPT !.op = "earlier"]
    /\ UNCHANGED <<session, now, pre, req, result>>

\* GET /sync for the user drawn, against the remote state drawn; gets counts
\* the requests answered so far, before is the store the request found
SyncCall ==
    /\ last.gets < MaxSyncs
    /\ last.ok
    /\ \E out \in sync_outcomes(tx, last.args.user, last.args.listing, last.args.content) :
         /\ last' = [last EXCEPT !.op = "sync", !.before = tx, !.ok = out.ok,
                                 !.error = out.error, !.gets = @ + 1]
         /\ tx' = IF out.ok THEN out.db ELSE db
         /\ db' = tx'
    /\ UNCHANGED <<session, now, pre, req, result>>

NextTwice ==
    \/ EarlierSync
    \/ SyncCall

SpecTwice == InitTwice /\ [][NextTwice]_vars

\* C26: a successful /sync that follows a successful /sync of the same user
\* against the same remote state leaves the store as the first left it: the
\* same playlists, the same multiset of track rows (spotify_id, playlist_id,
\* artist_id, album_id, name), the same artists and albums; tracks are not
\* accumulated.
C26_SyncIdempotent ==
    (last.op = "sync" /\ last.ok /\ last.gets >= 2) =>
        /\ tx.playlist = last.before.playlist
        /\ tx.track = last.before.track
        /\ tx.artist = last.before.artist
        /\ tx.album = last.before.album
        /\ db = tx

\* the second sync of a user with two playlists, one of them holding a track
\* twice, has succeeded
C26_Witness ==
    /\ last.op = "sync"
    /\ last.ok
    /\ last.gets = 2
    /\ Cardinality(PlaylistsOf(tx, last.args.user)) = 2
    /\ \E r \in DOMAIN tx.track : tx.track[r] = 2
    /\ \E r \in DOMAIN tx.track : r.spotify_id = "t2"

\* ---------------------------------------------------------------------------
\* The token functions of app/app.py: SpecApp
\* ---------------------------------------------------------------------------

JSONResponse(status_code, content) ==
    [status |-> status_code, media |-> "application/json", body |-> content,
     location |-> <<>>]

\* app.refresh_access_token, GET /refreshAccessToken, at time t; res is the
\* JSON of the token endpoint. res.get(refresh_token) looks the response up
\* under the VALUE of the token sent, a key no response has, so the session's
\* refresh_token is never replaced; the access_token is returned and not
\* stored
app_refresh_access_token(s, t, refresh_token, res) ==
    IF ~Truthy(refresh_token) /\ ~Truthy(s.refresh_token)
    THEN Outcome(s, "raise", "ValueError: Missing refresh token", <<>>)
    ELSE
      LET used == IF Truthy(refresh_token) THEN refresh_token ELSE s.refresh_token
          s1 == [s EXCEPT !.expiration_time = res.expires_in + t]
      IN IF Truthy(res.access_token)
         THEN Outcome(s1, "return", res.access_token, <<RefreshPost(used)>>)
         ELSE Outcome(s, "return", JSONResponse(401, res), <<RefreshPost(used)>>)

\* app.get_auth at time t
app_get_auth(s, t, res) ==
    IF s.expiration_time # NoTime /\ s.expiration_time > t /\ Truthy(s.access_token)
    THEN Outcome(s, "return", s.access_token, <<>>)
    ELSE IF Truthy(s.refresh_token)
    THEN app_refresh_access_token(s, t, s.refresh_token, res)
    ELSE Outcome(s, "return", s.access_token, <<>>)

\* a call of a handler of app.py is recorded as Record does; issued is the
\* access token of the last successful answer of the token endpoint so far
AppRecord(op, args, res, out) ==
    /\ pre' = session
    /\ session' = out.session
    /\ last' = [op |-> op, args |-> args,
                res |-> IF out.posts = <<>> THEN FailedResponse ELSE res,
                t |-> now,
                kind |-> out.kind, value |-> out.value, posts |-> out.posts,
                issued |-> IF out.posts # <<>> /\ Truthy(res.access_token)
                           THEN res.access_token
                           ELSE last.issued,
                known |-> last.issued]
    /\ UNCHANGED <<now, db, tx, req, result>>

\* GET /refreshAccessToken
AppRefreshAccessToken ==
    \E refresh_token \in {None} \cup RefreshTokens :
      \E res \in Answers(app_refresh_access_token(session, now, refresh_token,
                                                  FailedResponse)) :
        AppRecord("refresh_access_token",
                  [NoArgs EXCEPT !.refresh_token = refresh_token], res,
                  app_refresh_access_token(session, now, refresh_token, res))

\* a handler of app.py calls get_auth
AppGetAuth ==
    \E res \in Answers(app_get_auth(session, now, FailedResponse)) :
        AppRecord("get_auth", NoArgs, res, app_get_auth(session, now, res))

\* GET /callback with the stored state or another one
AppCallback ==
    \E code \in Codes, state \in {session.state, <<"x">>} :
      \E res \in Answers(callback(session, now, code, state, None, FailedResponse)) :
        AppRecord("callback", [NoArgs EXCEPT !.code = code, !.state = state],
                  res, callback(session, now, code, state, None, res))

\* the browser has been to /authorize and holds no token yet
InitApp ==
    /\ session = [access_token |-> None, refresh_token |-> None,
                  expiration_time |-> NoTime, state |-> MakeState(<<"k">>, <<>>)]
    /\ now = StartTime
    /\ pre = session
    /\ last = [op |-> "none", args |-> NoArgs, res |-> FailedResponse,
               t |-> StartTime, kind |-> "return", value |-> None, posts |-> <<>>,
               issued |-> None, known |-> None]
    /\ db = EmptyDB
    /\ tx = EmptyDB
    /\ req = NoReq
    /\ result = NoResult

NextApp ==
    \/ AppRefreshAccessToken
    \/ AppGetAuth
    \/ AppCallback
    \/ Tick

SpecApp == InitApp /\ [][NextApp]_vars

\* C27: in app/app.py the session's access_token and expiration_time describe
\* the same token: once the token endpoint has issued a token, the session's
\* access_token is the token issued last, and whenever get_auth returns the
\* cached access_token because expiration_time is in the future, it returns
\* the token issued last, never one issued before the last successful refresh.
C27_CachedTokenIsLatest ==
    /\ last.issued # None => session.access_token = last.issued
    /\ (/\ last.op = "get_auth"
        /\ last.posts = <<>>
        /\ pre.expiration_time > last.t
        /\ Truthy(pre.access_token)) => last.value = last.known

\* ---------------------------------------------------------------------------
\* A listing that repeats a playlist
\* ---------------------------------------------------------------------------

\* the ids of the playlists of a listing that user owns, in the order listed
OwnedIds(listing, user) ==
    LET owned == SelectSeq(listing, LAMBDA item : item # NullItem /\ item.owner.id = user)
    IN [i \in 1..Len(owned) |-> owned[i].id]

\* C28: sync_playlists never attempts to insert the same playlist spotify_id
\* twice within one sync, even when the listing contains the same playlist
\* owned by the user more than once: a sync whose listing holds no playlist
\* stored under another user does not fail with a duplicate playlist key.
C28_RepeatedPlaylistInsertedOnce ==
    (/\ last.op = "sync"
     /\ Keys(last.before.playlist \ PlaylistsOf(last.before, last.args.user))
            \cap Range(OwnedIds(last.args.listing, last.args.user)) = {})
        => last.ok

\* ---------------------------------------------------------------------------
\* The OAuth state after an accepted /callback
\* ---------------------------------------------------------------------------

\* C29: the OAuth state is single-use: when /callback has accepted a state,
\* the next /callback of the same session that carries the same state and a
\* code, no /authorize having stored a fresh state in between, is rejected and
\* sends no request to the token endpoint.
C29_StateSingleUse ==
    [][(/\ Accepted
        /\ now' = now
        /\ last'.op = "callback"
        /\ last'.args.state = last.args.state
        /\ last'.args.code # None
        /\ last'.args.error = None)
          => /\ last'.posts = <<>>
             /\ last'.kind = "return"
             /\ last'.value.status # 307]_vars

\* ---------------------------------------------------------------------------
\* Two /sync requests of one user at the same time: SpecRace
\* ---------------------------------------------------------------------------
\* Each request has its own Session (database.get_db) and so its own
\* transaction, at the isolation level the engine is created with, the
\* store's default READ COMMITTED: a statement sees the rows committed when
\* it runs and the rows its own transaction wrote. A statement that has to
\* wait for a row lock of the other transaction is taken when that
\* transaction has ended. db holds the committed rows, tx the uncommitted
\* writes of each request, req its position, result its outcome.

Procs == {1, 2}
Other(p) == 3 - p

\* the user both requests name: GET /sync?user=u1
RaceUser == "u1"

\* uncommitted writes of a transaction: user rows added, committed playlist
\* rows deleted, playlist rows added
NoPending == [user |-> {}, del |-> {}, ins |-> {}]

\* the rows a statement of request p sees: the committed rows with the
\* writes of p applied, a deleted playlist taking its tracks along
View(p) ==
    LET d == tx[p] IN
    [db EXCEPT !.user_id = @ \cup d.user,
               !.playlist = (@ \ d.del) \cup d.ins,
               !.track = [r \in {x \in DOMAIN @ : x.playlist_id \notin Keys(d.del)}
                            |-> @[r]]]

\* the listings the remote may give for the user, at the time it is asked
RaceListings ==
    {l \in RemoteListings :
        \A i \in DOMAIN l : l[i] # NullItem /\ l[i].owner.id = RaceUser}

\* the stores the two requests may find: no row at all, the user row only,
\* or what an earlier sync of a playlist holding one track twice has left
RaceStarts ==
    {EmptyDB, ensure_user(EmptyDB, RaceUser).db}
        \cup {out.db : out \in sync_outcomes(EmptyDB, RaceUser,
                  <<[id |-> "p1", name |-> <<"name of", "p1">>, owner |-> [id |-> RaceUser]]>>,
                  [i \in PlaylistIds |-> <<Entry1, Entry1>>])}

NoWrote == [q \in PlaylistIds |-> EmptyBag]

\* the request ends with an exception: get_db closes the Session, the
\* transaction is rolled back
RaceFail(p) ==
    /\ tx' = [tx EXCEPT ![p] = NoPending]
    /\ req' = [req EXCEPT ![p] = "failed"]
    /\ result' = [result EXCEPT ![p] = [status |-> "failed", wrote |-> NoWrote]]
    /\ UNCHANGED db

\* utils.add_or_get_user with the user given; the INSERT of the user row
\* waits while the other transaction holds an uncommitted row of that key
RaceAddOrGetUser(p) ==
    /\ req[p] = "add_or_get_user"
    /\ LET e == ensure_user(View(p), RaceUser) IN
       /\ RaceUser \in View(p).user_id \/ RaceUser \notin tx[Other(p)].user
       /\ tx' = [tx EXCEPT ![p].user = e.db.user_id \ db.user_id]
    /\ req' = [req EXCEPT ![p] = "clean_tables"]
    /\ UNCHANGED <<db, result>>

\* utils.clean_tables: the DELETE waits while the other transaction has
\* deleted one of the rows
RaceCleanTables(p) ==
    /\ req[p] = "clean_tables"
    /\ LET targets == PlaylistsOf(View(p), RaceUser)
           c == clean_tables(View(p), RaceUser)
       IN /\ targets \cap tx[Other(p)].del = {}
          /\ tx' = [tx EXCEPT ![p].del = @ \cup (targets \cap db.playlist),
                              ![p].ins = @ \cap c.db.playlist]
    /\ req' = [req EXCEPT ![p] = "sync_playlists"]
    /\ UNCHANGED <<db, result>>

\* utils.sync_playlists: the INSERT waits while the other transaction has
\* added or deleted, and not committed, a row of one of its keys
RaceSyncPlaylists(p) ==
    /\ req[p] = "sync_playlists"
    /\ \E listing \in RaceListings :
         LET out == sync_playlists(View(p), RaceUser,
                                   get_playlists_wrapper(Pages(listing)).items)
             ids == {listing[i].id : i \in DOMAIN listing}
         IN /\ ids \cap (Keys(tx[Other(p)].ins) \cup Keys(tx[Other(p)].del)) = {}
            /\ IF out.ok
               THEN /\ tx' = [tx EXCEPT ![p].ins = @ \cup (out.db.playlist \ View(p).playlist)]
                    /\ req' = [req EXCEPT ![p] = "sync_tracks"]
                    /\ UNCHANGED <<db, result>>
               ELSE RaceFail(p)

\* utils.sync_tracks, from its query of the user's playlists to its commit;
\* the foreign key check of a track waits while the other transaction has
\* deleted the playlist row
RaceSyncTracks(p) ==
    /\ req[p] = "sync_tracks"
    /\ LET mine == PlaylistsOf(View(p), RaceUser) IN
       /\ mine \cap tx[Other(p)].del = {}
       /\ \E playlists \in Orders(mine), entries \in RemoteEntries :
            LET out == store_tracks(View(p),
                          fetch_tracks(playlists, [q \in PlaylistIds |-> entries], NoAcc))
                added == out.db.track (-) View(p).track
            IN IF out.ok
               THEN /\ db' = out.db
                    /\ tx' = [tx EXCEPT ![p] = NoPending]
                    /\ req' = [req EXCEPT ![p] = "done"]
                    /\ result' = [result EXCEPT ![p] =
                         [status |-> "ok",
                          wrote |-> [q \in PlaylistIds |->
                                       [r \in {x \in DOMAIN added : x.playlist_id = q}
                                          |-> added[r]]]]]
               ELSE RaceFail(p)

InitRace ==
    /\ session = ExpiredSession
    /\ now = StartTime
    /\ pre = session
    /\ db \in RaceStarts
    /\ last = [NoCall EXCEPT !.before = db]
    /\ tx = [p \in Procs |-> NoPending]
    /\ req = [p \in Procs |-> "add_or_get_user"]
    /\ result = [p \in Procs |-> [status |-> "running", wrote |-> NoWrote]]

NextRace ==
    \/ \E p \in Procs : RaceAddOrGetUser(p) /\ UNCHANGED <<session, now, pre, last>>
    \/ \E p \in Procs : RaceCleanTables(p) /\ UNCHANGED <<session, now, pre, last>>
    \/ \E p \in Procs : RaceSyncPlaylists(p) /\ UNCHANGED <<session, now, pre, last>>
    \/ \E p \in Procs : RaceSyncTracks(p) /\ UNCHANGED <<session, now, pre, last>>

SpecRace == InitRace /\ [][NextRace]_vars

\* the track rows of playlist q among the committed rows
TracksIn(t, q) == [r \in {x \in DOMAIN t.track : x.playlist_id = q} |-> t.track[r]]

\* C30: two concurrent /sync requests of one user cannot corrupt the store:
\* when both have finished, committed or failed, the committed store holds
\* each playlist at most once and, for each playlist of the user, only the
\* track rows written by one committed sync, never the union of the rows of
\* both; when both have failed the store is as it was.
C30_ConcurrentSyncsKeepOneResult ==
    (\A p \in Procs : req[p] \in {"done", "failed"}) =>
        /\ \A a, b \in db.playlist : a.spotify_id = b.spotify_id => a = b
        /\ IF \A p \in Procs : result[p].status = "failed"
           THEN db = last.before
           ELSE \A q \in Keys(PlaylistsOf(db, RaceUser)) :
                   \E p \in Procs :
                       /\ result[p].status = "ok"
                       /\ TracksIn(db, q) = result[p].wrote[q]

====
